---------------------------- MODULE Spec2Model ----------------------------
(***************************************************************************)
(* A model of the single-scope assembler of etk-asm (src/etk-asm/src/asm.rs) *)
(* and of the parts of src/etk-asm/src/ops.rs it relies on.                 *)
(*                                                                         *)
(* The assembler state is the six fields of `struct Assembler`.  Every     *)
(* public operation (push, take, finish) is one action.  The handlers call *)
(* each other recursively (push -> expand_macro -> push ...), so they are  *)
(* written as operators over a record `s` holding the six fields plus the  *)
(* outcome of the call (`err`, `panic`) and bookkeeping that only the      *)
(* properties read (`nadmitted`, `min_len`, `decl_idx`, `rnd`).            *)
(***************************************************************************)
EXTENDS Integers, Sequences, FiniteSets, TLC

VARIABLES
    ready,             \* Vec<RawOp>: assembled ops, not yet taken
    concrete_len,      \* usize
    declared_labels,   \* HashMap<String, Option<usize>>
    declared_macros,   \* HashMap<String, MacroDefinition>
    undefined_labels,  \* Vec<PendingLabel>
    undefined_macros,  \* Vec<PendingMacro>
    panicked,          \* a handler panicked: the assembler is gone
    profile,           \* which input alphabet this run draws its items from
    program,           \* history: the push calls made so far, in order
    out,               \* history: the encodings returned by all takes, item by item
    nadmitted,         \* history: number of items ever put into ready
    min_len,           \* history: sum of the minimum sizes of those items
    decl_idx,          \* history: label -> number of items placed before it
    failed,            \* history: some push returned an error
    prev,              \* history: the push or take before the last call
    res,               \* the last call and what it returned
    call               \* the last conversion of ops.rs applied, and its values

vars == <<ready, concrete_len, declared_labels, declared_macros,
          undefined_labels, undefined_macros, panicked, profile, program,
          out, nadmitted, min_len, decl_idx, failed, prev, res, call>>

-----------------------------------------------------------------------------
(* Bounds of the model. *)

MaxPush == 4
(* Pushes of a run whose blobs are empty. *)
MaxEmptyPush == 5
MaxRand == 2
BlobLen == 254
(* How many expansions may be nested before the call stack is exhausted. *)
MaxDepth == 3

(* Program constants. *)

WidthStep == 256
MinUnsizedSize == 2
Push1Byte == 96
JumpDestByte == 91
GetPcByte == 88

None == -1

-----------------------------------------------------------------------------
(* Generic helpers on sequences and maps. *)

Put(f, k, v) == [x \in (DOMAIN f) \cup {k} |-> IF x = k THEN v ELSE f[x]]

InsertAt(seq, pos, x) ==
    SubSeq(seq, 1, pos) \o <<x>> \o SubSeq(seq, pos + 1, Len(seq))

RECURSIVE Flatten(_)
Flatten(chunks) ==
    IF chunks = <<>> THEN <<>> ELSE Head(chunks) \o Flatten(Tail(chunks))

RECURSIVE SumLen(_)
SumLen(chunks) ==
    IF chunks = <<>> THEN 0 ELSE Len(Head(chunks)) + SumLen(Tail(chunks))

Range(seq) == {seq[i] : i \in DOMAIN seq}

Max(a, b) == IF a >= b THEN a ELSE b

-----------------------------------------------------------------------------
(* Names.  A label name is a triple: a label written in the source is      *)
(* <<"", name, 0>>; the mangled name format!("{}_{}_{}", macro, label, id) *)
(* is <<macro, label, id>>.                                                *)

Lbl(n) == <<"", n, 0>>

(* A mangling that keeps the label's own name. *)
MangleKeep(mname, label, id) == label

Mangle(mname, label, id) == <<mname, label[2], id>>

(* Expressions: numbers, label references, variables, sums. *)

Num(v) == [t |-> "num", v |-> v]
LabelRef(l) == [t |-> "lbl", l |-> l]
Var(x) == [t |-> "var", x |-> x]
Plus(a, b) == [t |-> "plus", a |-> a, b |-> b]
(* An invocation of an expression macro. *)
Call(name, params) == [t |-> "call", name |-> name, params |-> params]
(* BigInt::from_bytes_be(Sign::Plus, &[1u8; len]): a number too wide to be *)
(* written out, kept as its length; a sum with it keeps the length only.   *)
Wide(len) == [t |-> "wide", len |-> len]

(* Abstract ops and raw items. *)

Op(sp) == [k |-> "op", sp |-> sp]
PushN(n, e) == [k |-> "pushn", n |-> n, e |-> e]
PushU(e) == [k |-> "push", e |-> e]
LabelDecl(l) == [k |-> "label", l |-> l]
MacroInv(name, params) == [k |-> "macro", name |-> name, params |-> params]
MacroDef(name, params, contents) ==
    [k |-> "mdef", name |-> name, params |-> params, contents |-> contents]
ExprMacroDef(name, params, content) ==
    [k |-> "edef", name |-> name, params |-> params, content |-> content]
Raw(bytes) == [k |-> "raw", bytes |-> bytes]

HasExpr(rop) == rop.k \in {"pushn", "push"}


-----------------------------------------------------------------------------
(* Expressions (the expression tree behind Imm). *)

EvalOk(v) == [r |-> "Ok", v |-> v, wide |-> 0]
EvalWide(len) == [r |-> "Ok", v |-> 0, wide |-> len]
EvalErr(why) == [r |-> why, v |-> 0, wide |-> 0]
EvalUnknownMacro(name) == [r |-> "UnknownMacro", v |-> name, wide |-> 0]

(* The context an expression is evaluated in: (&declared_labels,           *)
(* &declared_macros).into()                                                *)
Context(labels, macros) == [labels |-> labels, macros |-> macros]

RECURSIVE FillVariable(_, _, _)
FillVariable(e, name, value) ==
    CASE e.t = "var" -> IF e.x = name THEN value ELSE e
      [] e.t = "plus" ->
            Plus(FillVariable(e.a, name, value), FillVariable(e.b, name, value))
      [] OTHER -> e

RECURSIVE FillVariables(_, _, _)
FillVariables(e, names, values) ==
    IF names = <<>> THEN e
    ELSE FillVariables(FillVariable(e, Head(names), Head(values)),
                       Tail(names), Tail(values))

(* eval(expr, ctx): a label is unknown when it is absent from the table or *)
(* present with value None; the left operand is evaluated first; an        *)
(* expression macro is looked up by name and its body evaluated with the   *)
(* arguments filled in.                                                    *)
RECURSIVE Eval(_, _)
Eval(e, ctx) ==
    CASE e.t = "num" -> EvalOk(e.v)
      [] e.t = "wide" -> EvalWide(e.len)
      [] e.t = "lbl" ->
            IF e.l \in DOMAIN ctx.labels /\ ctx.labels[e.l] # None
            THEN EvalOk(ctx.labels[e.l])
            ELSE EvalErr("UnknownLabel")
      [] e.t = "var" -> EvalErr("UndefinedVariable")
      [] e.t = "call" ->
            IF e.name \in DOMAIN ctx.macros /\ ctx.macros[e.name].k = "edef"
            THEN Eval(FillVariables(ctx.macros[e.name].content,
                                    ctx.macros[e.name].params, e.params), ctx)
            ELSE EvalUnknownMacro(e.name)
      [] e.t = "plus" ->
            LET a == Eval(e.a, ctx) IN
            IF a.r # "Ok" THEN a
            ELSE LET b == Eval(e.b, ctx) IN
                 IF b.r # "Ok" THEN b
                 ELSE IF a.wide > 0 \/ b.wide > 0
                      THEN EvalWide(IF a.wide >= b.wide THEN a.wide ELSE b.wide)
                      ELSE EvalOk(a.v + b.v)

(* labels(): the label names an expression mentions, left to right. *)
RECURSIVE ExprLabels(_)
ExprLabels(e) ==
    CASE e.t = "lbl" -> <<e.l>>
      [] e.t = "plus" -> ExprLabels(e.a) \o ExprLabels(e.b)
      [] OTHER -> <<>>

(* labels(&macros) is Ok: every expression macro the expression invokes is *)
(* defined.                                                                *)
RECURSIVE LabelsOk(_, _)
LabelsOk(e, macros) ==
    CASE e.t = "call" -> e.name \in DOMAIN macros /\ macros[e.name].k = "edef"
      [] e.t = "plus" -> LabelsOk(e.a, macros) /\ LabelsOk(e.b, macros)
      [] OTHER -> TRUE

RECURSIVE ReplaceLabel(_, _, _)
ReplaceLabel(e, old, new) ==
    CASE e.t = "lbl" -> IF e.l = old THEN LabelRef(new) ELSE e
      [] e.t = "plus" ->
            Plus(ReplaceLabel(e.a, old, new), ReplaceLabel(e.b, old, new))
      [] OTHER -> e

-----------------------------------------------------------------------------
(* Bytes and specifiers (ops.rs). *)

(* BigInt::to_bytes_be of a non-negative value: at least one byte. *)
RECURSIVE ToBytesBE(_)
ToBytesBE(v) ==
    IF v < 256 THEN <<v>>
    ELSE ToBytesBE(v \div 256) \o <<v % 256>>

(* while !trimmed.is_empty() && trimmed[0] == 0 { trimmed = &trimmed[1..] } *)
RECURSIVE TrimLeadingZeros(_)
TrimLeadingZeros(bytes) ==
    IF bytes # <<>> /\ Head(bytes) = 0
    THEN TrimLeadingZeros(Tail(bytes))
    ELSE bytes

(* The widest push: Push32. *)
MaxPushWidth == 32

(* Specifier::push with every arm shifted by one: 1 => Push2, ... *)
SpecifierPushWide(bytes) ==
    IF bytes <= 31 THEN bytes + 1 ELSE None

(* Specifier::push(bytes): the N of PushN, or None. *)
SpecifierPush(bytes) ==
    IF bytes \in {0, 1} THEN 1
    ELSE IF bytes <= MaxPushWidth THEN bytes
    ELSE None

(* The immediate padded on the right. *)
PadRight(bytes, n) == bytes \o [i \in 1..(n - Len(bytes)) |-> 0]

(* The immediate as a fixed-width big-endian array, zero-padded on the left. *)
PadLeft(bytes, n) == [i \in 1..(n - Len(bytes)) |-> 0] \o bytes

(* u8::from(specifier) of PushN. *)
PushByte(n) == Push1Byte + n - 1

COk(sp, imm) == [r |-> "Ok", sp |-> sp, imm |-> imm, v |-> 0]
CErr(why, v) == [r |-> why, sp |-> 0, imm |-> <<>>, v |-> v]

(* to_bytes_be of an evaluated value. *)
ValueBytes(ev) ==
    IF ev.wide > 0 THEN [i \in 1..ev.wide |-> 1] ELSE ToBytesBE(ev.v)

(* AbstractOp::concretize(ctx): the op with its immediate materialized. *)
Concretize(op, ctx) ==
    IF op.k = "op" THEN COk(op.sp, <<>>)
    ELSE LET ev == Eval(op.e, ctx) IN
         IF ev.r # "Ok" THEN CErr(ev.r, ev.v)
         ELSE IF ev.v < 0 THEN CErr("ExpressionNegative", ev.v)
         ELSE LET trimmed == TrimLeadingZeros(ValueBytes(ev)) IN
              IF op.k = "pushn"
              THEN IF Len(trimmed) > op.n
                   THEN CErr("ExpressionTooLarge", ev.v)
                   ELSE COk(PushByte(op.n), PadLeft(trimmed, op.n))
              ELSE LET n == SpecifierPush(Len(trimmed)) IN
                   IF n = None THEN CErr("ExpressionTooLarge", ev.v)
                   ELSE COk(PushByte(n), PadLeft(trimmed, n))

(* Op<Concrete>::assemble: the opcode byte, then the immediate. *)
Assemble(cop) == <<cop.sp>> \o cop.imm

(* Op::size(): 1 + immediate length; None for an unsized push. *)
OpSize(op) ==
    CASE op.k = "op" -> 1
      [] op.k = "pushn" -> 1 + op.n
      [] op.k = "label" -> 0
      [] OTHER -> None

-----------------------------------------------------------------------------
(* Specifiers (ops.rs, the ops! table and the conversions it generates).   *)

(* The ops! table in its order: variant, mnemonic and the width n of its   *)
(* immediate type Pn (0: the variant has no argument).                     *)
OpsTable == <<
    [op |-> "Stop", mnemonic |-> "stop", arg |-> 0],
    [op |-> "Add", mnemonic |-> "add", arg |-> 0],
    [op |-> "Mul", mnemonic |-> "mul", arg |-> 0],
    [op |-> "Sub", mnemonic |-> "sub", arg |-> 0],
    [op |-> "Div", mnemonic |-> "div", arg |-> 0],
    [op |-> "SDiv", mnemonic |-> "sdiv", arg |-> 0],
    [op |-> "Mod", mnemonic |-> "mod", arg |-> 0],
    [op |-> "SMod", mnemonic |-> "smod", arg |-> 0],
    [op |-> "AddMod", mnemonic |-> "addmod", arg |-> 0],
    [op |-> "MulMod", mnemonic |-> "mulmod", arg |-> 0],
    [op |-> "Exp", mnemonic |-> "exp", arg |-> 0],
    [op |-> "SignExtend", mnemonic |-> "signextend", arg |-> 0],
    [op |-> "Invalid0c", mnemonic |-> "invalid_0c", arg |-> 0],
    [op |-> "Invalid0d", mnemonic |-> "invalid_0d", arg |-> 0],
    [op |-> "Invalid0e", mnemonic |-> "invalid_0e", arg |-> 0],
    [op |-> "Invalid0f", mnemonic |-> "invalid_0f", arg |-> 0],
    [op |-> "Lt", mnemonic |-> "lt", arg |-> 0],
    [op |-> "Gt", mnemonic |-> "gt", arg |-> 0],
    [op |-> "SLt", mnemonic |-> "slt", arg |-> 0],
    [op |-> "SGt", mnemonic |-> "sgt", arg |-> 0],
    [op |-> "Eq", mnemonic |-> "eq", arg |-> 0],
    [op |-> "IsZero", mnemonic |-> "iszero", arg |-> 0],
    [op |-> "And", mnemonic |-> "and", arg |-> 0],
    [op |-> "Or", mnemonic |-> "or", arg |-> 0],
    [op |-> "Xor", mnemonic |-> "xor", arg |-> 0],
    [op |-> "Not", mnemonic |-> "not", arg |-> 0],
    [op |-> "Byte", mnemonic |-> "byte", arg |-> 0],
    [op |-> "Shl", mnemonic |-> "shl", arg |-> 0],
    [op |-> "Shr", mnemonic |-> "shr", arg |-> 0],
    [op |-> "Sar", mnemonic |-> "sar", arg |-> 0],
    [op |-> "Invalid1e", mnemonic |-> "invalid_1e", arg |-> 0],
    [op |-> "Invalid1f", mnemonic |-> "invalid_1f", arg |-> 0],
    [op |-> "Keccak256", mnemonic |-> "keccak256", arg |-> 0],
    [op |-> "Invalid21", mnemonic |-> "invalid_21", arg |-> 0],
    [op |-> "Invalid22", mnemonic |-> "invalid_22", arg |-> 0],
    [op |-> "Invalid23", mnemonic |-> "invalid_23", arg |-> 0],
    [op |-> "Invalid24", mnemonic |-> "invalid_24", arg |-> 0],
    [op |-> "Invalid25", mnemonic |-> "invalid_25", arg |-> 0],
    [op |-> "Invalid26", mnemonic |-> "invalid_26", arg |-> 0],
    [op |-> "Invalid27", mnemonic |-> "invalid_27", arg |-> 0],
    [op |-> "Invalid28", mnemonic |-> "invalid_28", arg |-> 0],
    [op |-> "Invalid29", mnemonic |-> "invalid_29", arg |-> 0],
    [op |-> "Invalid2a", mnemonic |-> "invalid_2a", arg |-> 0],
    [op |-> "Invalid2b", mnemonic |-> "invalid_2b", arg |-> 0],
    [op |-> "Invalid2c", mnemonic |-> "invalid_2c", arg |-> 0],
    [op |-> "Invalid2d", mnemonic |-> "invalid_2d", arg |-> 0],
    [op |-> "Invalid2e", mnemonic |-> "invalid_2e", arg |-> 0],
    [op |-> "Invalid2f", mnemonic |-> "invalid_2f", arg |-> 0],
    [op |-> "Address", mnemonic |-> "address", arg |-> 0],
    [op |-> "Balance", mnemonic |-> "balance", arg |-> 0],
    [op |-> "Origin", mnemonic |-> "origin", arg |-> 0],
    [op |-> "Caller", mnemonic |-> "caller", arg |-> 0],
    [op |-> "CallValue", mnemonic |-> "callvalue", arg |-> 0],
    [op |-> "CallDataLoad", mnemonic |-> "calldataload", arg |-> 0],
    [op |-> "CallDataSize", mnemonic |-> "calldatasize", arg |-> 0],
    [op |-> "CallDataCopy", mnemonic |-> "calldatacopy", arg |-> 0],
    [op |-> "CodeSize", mnemonic |-> "codesize", arg |-> 0],
    [op |-> "CodeCopy", mnemonic |-> "codecopy", arg |-> 0],
    [op |-> "GasPrice", mnemonic |-> "gasprice", arg |-> 0],
    [op |-> "ExtCodeSize", mnemonic |-> "extcodesize", arg |-> 0],
    [op |-> "ExtCodeCopy", mnemonic |-> "extcodecopy", arg |-> 0],
    [op |-> "ReturnDataSize", mnemonic |-> "returndatasize", arg |-> 0],
    [op |-> "ReturnDataCopy", mnemonic |-> "returndatacopy", arg |-> 0],
    [op |-> "ExtCodeHash", mnemonic |-> "extcodehash", arg |-> 0],
    [op |-> "BlockHash", mnemonic |-> "blockhash", arg |-> 0],
    [op |-> "Coinbase", mnemonic |-> "coinbase", arg |-> 0],
    [op |-> "Timestamp", mnemonic |-> "timestamp", arg |-> 0],
    [op |-> "Number", mnemonic |-> "number", arg |-> 0],
    [op |-> "Difficulty", mnemonic |-> "difficulty", arg |-> 0],
    [op |-> "GasLimit", mnemonic |-> "gaslimit", arg |-> 0],
    [op |-> "ChainId", mnemonic |-> "chainid", arg |-> 0],
    [op |-> "Invalid47", mnemonic |-> "invalid_47", arg |-> 0],
    [op |-> "Invalid48", mnemonic |-> "invalid_48", arg |-> 0],
    [op |-> "Invalid49", mnemonic |-> "invalid_49", arg |-> 0],
    [op |-> "Invalid4a", mnemonic |-> "invalid_4a", arg |-> 0],
    [op |-> "Invalid4b", mnemonic |-> "invalid_4b", arg |-> 0],
    [op |-> "Invalid4c", mnemonic |-> "invalid_4c", arg |-> 0],
    [op |-> "Invalid4d", mnemonic |-> "invalid_4d", arg |-> 0],
    [op |-> "Invalid4e", mnemonic |-> "invalid_4e", arg |-> 0],
    [op |-> "Invalid4f", mnemonic |-> "invalid_4f", arg |-> 0],
    [op |-> "Pop", mnemonic |-> "pop", arg |-> 0],
    [op |-> "MLoad", mnemonic |-> "mload", arg |-> 0],
    [op |-> "MStore", mnemonic |-> "mstore", arg |-> 0],
    [op |-> "MStore8", mnemonic |-> "mstore8", arg |-> 0],
    [op |-> "SLoad", mnemonic |-> "sload", arg |-> 0],
    [op |-> "SStore", mnemonic |-> "sstore", arg |-> 0],
    [op |-> "Jump", mnemonic |-> "jump", arg |-> 0],
    [op |-> "JumpI", mnemonic |-> "jumpi", arg |-> 0],
    [op |-> "GetPc", mnemonic |-> "pc", arg |-> 0],
    [op |-> "MSize", mnemonic |-> "msize", arg |-> 0],
    [op |-> "Gas", mnemonic |-> "gas", arg |-> 0],
    [op |-> "JumpDest", mnemonic |-> "jumpdest", arg |-> 0],
    [op |-> "Invalid5c", mnemonic |-> "invalid_5c", arg |-> 0],
    [op |-> "Invalid5d", mnemonic |-> "invalid_5d", arg |-> 0],
    [op |-> "Invalid5e", mnemonic |-> "invalid_5e", arg |-> 0],
    [op |-> "Invalid5f", mnemonic |-> "invalid_5f", arg |-> 0],
    [op |-> "Push1", mnemonic |-> "push1", arg |-> 1],
    [op |-> "Push2", mnemonic |-> "push2", arg |-> 2],
    [op |-> "Push3", mnemonic |-> "push3", arg |-> 3],
    [op |-> "Push4", mnemonic |-> "push4", arg |-> 4],
    [op |-> "Push5", mnemonic |-> "push5", arg |-> 5],
    [op |-> "Push6", mnemonic |-> "push6", arg |-> 6],
    [op |-> "Push7", mnemonic |-> "push7", arg |-> 7],
    [op |-> "Push8", mnemonic |-> "push8", arg |-> 8],
    [op |-> "Push9", mnemonic |-> "push9", arg |-> 9],
    [op |-> "Push10", mnemonic |-> "push10", arg |-> 10],
    [op |-> "Push11", mnemonic |-> "push11", arg |-> 11],
    [op |-> "Push12", mnemonic |-> "push12", arg |-> 12],
    [op |-> "Push13", mnemonic |-> "push13", arg |-> 13],
    [op |-> "Push14", mnemonic |-> "push14", arg |-> 14],
    [op |-> "Push15", mnemonic |-> "push15", arg |-> 15],
    [op |-> "Push16", mnemonic |-> "push16", arg |-> 16],
    [op |-> "Push17", mnemonic |-> "push17", arg |-> 17],
    [op |-> "Push18", mnemonic |-> "push18", arg |-> 18],
    [op |-> "Push19", mnemonic |-> "push19", arg |-> 19],
    [op |-> "Push20", mnemonic |-> "push20", arg |-> 20],
    [op |-> "Push21", mnemonic |-> "push21", arg |-> 21],
    [op |-> "Push22", mnemonic |-> "push22", arg |-> 22],
    [op |-> "Push23", mnemonic |-> "push23", arg |-> 23],
    [op |-> "Push24", mnemonic |-> "push24", arg |-> 24],
    [op |-> "Push25", mnemonic |-> "push25", arg |-> 25],
    [op |-> "Push26", mnemonic |-> "push26", arg |-> 26],
    [op |-> "Push27", mnemonic |-> "push27", arg |-> 27],
    [op |-> "Push28", mnemonic |-> "push28", arg |-> 28],
    [op |-> "Push29", mnemonic |-> "push29", arg |-> 29],
    [op |-> "Push30", mnemonic |-> "push30", arg |-> 30],
    [op |-> "Push31", mnemonic |-> "push31", arg |-> 31],
    [op |-> "Push32", mnemonic |-> "push32", arg |-> 32],
    [op |-> "Dup1", mnemonic |-> "dup1", arg |-> 0],
    [op |-> "Dup2", mnemonic |-> "dup2", arg |-> 0],
    [op |-> "Dup3", mnemonic |-> "dup3", arg |-> 0],
    [op |-> "Dup4", mnemonic |-> "dup4", arg |-> 0],
    [op |-> "Dup5", mnemonic |-> "dup5", arg |-> 0],
    [op |-> "Dup6", mnemonic |-> "dup6", arg |-> 0],
    [op |-> "Dup7", mnemonic |-> "dup7", arg |-> 0],
    [op |-> "Dup8", mnemonic |-> "dup8", arg |-> 0],
    [op |-> "Dup9", mnemonic |-> "dup9", arg |-> 0],
    [op |-> "Dup10", mnemonic |-> "dup10", arg |-> 0],
    [op |-> "Dup11", mnemonic |-> "dup11", arg |-> 0],
    [op |-> "Dup12", mnemonic |-> "dup12", arg |-> 0],
    [op |-> "Dup13", mnemonic |-> "dup13", arg |-> 0],
    [op |-> "Dup14", mnemonic |-> "dup14", arg |-> 0],
    [op |-> "Dup15", mnemonic |-> "dup15", arg |-> 0],
    [op |-> "Dup16", mnemonic |-> "dup16", arg |-> 0],
    [op |-> "Swap1", mnemonic |-> "swap1", arg |-> 0],
    [op |-> "Swap2", mnemonic |-> "swap2", arg |-> 0],
    [op |-> "Swap3", mnemonic |-> "swap3", arg |-> 0],
    [op |-> "Swap4", mnemonic |-> "swap4", arg |-> 0],
    [op |-> "Swap5", mnemonic |-> "swap5", arg |-> 0],
    [op |-> "Swap6", mnemonic |-> "swap6", arg |-> 0],
    [op |-> "Swap7", mnemonic |-> "swap7", arg |-> 0],
    [op |-> "Swap8", mnemonic |-> "swap8", arg |-> 0],
    [op |-> "Swap9", mnemonic |-> "swap9", arg |-> 0],
    [op |-> "Swap10", mnemonic |-> "swap10", arg |-> 0],
    [op |-> "Swap11", mnemonic |-> "swap11", arg |-> 0],
    [op |-> "Swap12", mnemonic |-> "swap12", arg |-> 0],
    [op |-> "Swap13", mnemonic |-> "swap13", arg |-> 0],
    [op |-> "Swap14", mnemonic |-> "swap14", arg |-> 0],
    [op |-> "Swap15", mnemonic |-> "swap15", arg |-> 0],
    [op |-> "Swap16", mnemonic |-> "swap16", arg |-> 0],
    [op |-> "Log0", mnemonic |-> "log0", arg |-> 0],
    [op |-> "Log1", mnemonic |-> "log1", arg |-> 0],
    [op |-> "Log2", mnemonic |-> "log2", arg |-> 0],
    [op |-> "Log3", mnemonic |-> "log3", arg |-> 0],
    [op |-> "Log4", mnemonic |-> "log4", arg |-> 0],
    [op |-> "InvalidA5", mnemonic |-> "invalid_a5", arg |-> 0],
    [op |-> "InvalidA6", mnemonic |-> "invalid_a6", arg |-> 0],
    [op |-> "InvalidA7", mnemonic |-> "invalid_a7", arg |-> 0],
    [op |-> "InvalidA8", mnemonic |-> "invalid_a8", arg |-> 0],
    [op |-> "InvalidA9", mnemonic |-> "invalid_a9", arg |-> 0],
    [op |-> "InvalidAa", mnemonic |-> "invalid_aa", arg |-> 0],
    [op |-> "InvalidAb", mnemonic |-> "invalid_ab", arg |-> 0],
    [op |-> "InvalidAc", mnemonic |-> "invalid_ac", arg |-> 0],
    [op |-> "InvalidAd", mnemonic |-> "invalid_ad", arg |-> 0],
    [op |-> "InvalidAe", mnemonic |-> "invalid_ae", arg |-> 0],
    [op |-> "InvalidAf", mnemonic |-> "invalid_af", arg |-> 0],
    [op |-> "JumpTo", mnemonic |-> "jumpto", arg |-> 0],
    [op |-> "JumpIf", mnemonic |-> "jumpif", arg |-> 0],
    [op |-> "JumpSub", mnemonic |-> "jumpsub", arg |-> 0],
    [op |-> "InvalidB3", mnemonic |-> "invalid_b3", arg |-> 0],
    [op |-> "JumpSubV", mnemonic |-> "jumpsubv", arg |-> 0],
    [op |-> "BeginSub", mnemonic |-> "beginsub", arg |-> 0],
    [op |-> "BeginData", mnemonic |-> "begindata", arg |-> 0],
    [op |-> "InvalidB7", mnemonic |-> "invalid_b7", arg |-> 0],
    [op |-> "ReturnSub", mnemonic |-> "returnsub", arg |-> 0],
    [op |-> "PutLocal", mnemonic |-> "putlocal", arg |-> 0],
    [op |-> "GetLocal", mnemonic |-> "getlocal", arg |-> 0],
    [op |-> "InvalidBb", mnemonic |-> "invalid_bb", arg |-> 0],
    [op |-> "InvalidBc", mnemonic |-> "invalid_bc", arg |-> 0],
    [op |-> "InvalidBd", mnemonic |-> "invalid_bd", arg |-> 0],
    [op |-> "InvalidBe", mnemonic |-> "invalid_be", arg |-> 0],
    [op |-> "InvalidBf", mnemonic |-> "invalid_bf", arg |-> 0],
    [op |-> "InvalidC0", mnemonic |-> "invalid_c0", arg |-> 0],
    [op |-> "InvalidC1", mnemonic |-> "invalid_c1", arg |-> 0],
    [op |-> "InvalidC2", mnemonic |-> "invalid_c2", arg |-> 0],
    [op |-> "InvalidC3", mnemonic |-> "invalid_c3", arg |-> 0],
    [op |-> "InvalidC4", mnemonic |-> "invalid_c4", arg |-> 0],
    [op |-> "InvalidC5", mnemonic |-> "invalid_c5", arg |-> 0],
    [op |-> "InvalidC6", mnemonic |-> "invalid_c6", arg |-> 0],
    [op |-> "InvalidC7", mnemonic |-> "invalid_c7", arg |-> 0],
    [op |-> "InvalidC8", mnemonic |-> "invalid_c8", arg |-> 0],
    [op |-> "InvalidC9", mnemonic |-> "invalid_c9", arg |-> 0],
    [op |-> "InvalidCa", mnemonic |-> "invalid_ca", arg |-> 0],
    [op |-> "InvalidCb", mnemonic |-> "invalid_cb", arg |-> 0],
    [op |-> "InvalidCc", mnemonic |-> "invalid_cc", arg |-> 0],
    [op |-> "InvalidCd", mnemonic |-> "invalid_cd", arg |-> 0],
    [op |-> "InvalidCe", mnemonic |-> "invalid_ce", arg |-> 0],
    [op |-> "InvalidCf", mnemonic |-> "invalid_cf", arg |-> 0],
    [op |-> "InvalidD0", mnemonic |-> "invalid_d0", arg |-> 0],
    [op |-> "InvalidD1", mnemonic |-> "invalid_d1", arg |-> 0],
    [op |-> "InvalidD2", mnemonic |-> "invalid_d2", arg |-> 0],
    [op |-> "InvalidD3", mnemonic |-> "invalid_d3", arg |-> 0],
    [op |-> "InvalidD4", mnemonic |-> "invalid_d4", arg |-> 0],
    [op |-> "InvalidD5", mnemonic |-> "invalid_d5", arg |-> 0],
    [op |-> "InvalidD6", mnemonic |-> "invalid_d6", arg |-> 0],
    [op |-> "InvalidD7", mnemonic |-> "invalid_d7", arg |-> 0],
    [op |-> "InvalidD8", mnemonic |-> "invalid_d8", arg |-> 0],
    [op |-> "InvalidD9", mnemonic |-> "invalid_d9", arg |-> 0],
    [op |-> "InvalidDa", mnemonic |-> "invalid_da", arg |-> 0],
    [op |-> "InvalidDb", mnemonic |-> "invalid_db", arg |-> 0],
    [op |-> "InvalidDc", mnemonic |-> "invalid_dc", arg |-> 0],
    [op |-> "InvalidDd", mnemonic |-> "invalid_dd", arg |-> 0],
    [op |-> "InvalidDe", mnemonic |-> "invalid_de", arg |-> 0],
    [op |-> "InvalidDf", mnemonic |-> "invalid_df", arg |-> 0],
    [op |-> "InvalidE0", mnemonic |-> "invalid_e0", arg |-> 0],
    [op |-> "SLoadBytes", mnemonic |-> "sloadbytes", arg |-> 0],
    [op |-> "SStoreBytes", mnemonic |-> "sstorebytes", arg |-> 0],
    [op |-> "SSize", mnemonic |-> "ssize", arg |-> 0],
    [op |-> "InvalidE4", mnemonic |-> "invalid_e4", arg |-> 0],
    [op |-> "InvalidE5", mnemonic |-> "invalid_e5", arg |-> 0],
    [op |-> "InvalidE6", mnemonic |-> "invalid_e6", arg |-> 0],
    [op |-> "InvalidE7", mnemonic |-> "invalid_e7", arg |-> 0],
    [op |-> "InvalidE8", mnemonic |-> "invalid_e8", arg |-> 0],
    [op |-> "InvalidE9", mnemonic |-> "invalid_e9", arg |-> 0],
    [op |-> "InvalidEa", mnemonic |-> "invalid_ea", arg |-> 0],
    [op |-> "InvalidEb", mnemonic |-> "invalid_eb", arg |-> 0],
    [op |-> "InvalidEc", mnemonic |-> "invalid_ec", arg |-> 0],
    [op |-> "InvalidEd", mnemonic |-> "invalid_ed", arg |-> 0],
    [op |-> "InvalidEe", mnemonic |-> "invalid_ee", arg |-> 0],
    [op |-> "InvalidEf", mnemonic |-> "invalid_ef", arg |-> 0],
    [op |-> "Create", mnemonic |-> "create", arg |-> 0],
    [op |-> "Call", mnemonic |-> "call", arg |-> 0],
    [op |-> "CallCode", mnemonic |-> "callcode", arg |-> 0],
    [op |-> "Return", mnemonic |-> "return", arg |-> 0],
    [op |-> "DelegateCall", mnemonic |-> "delegatecall", arg |-> 0],
    [op |-> "Create2", mnemonic |-> "create2", arg |-> 0],
    [op |-> "InvalidF6", mnemonic |-> "invalid_f6", arg |-> 0],
    [op |-> "InvalidF7", mnemonic |-> "invalid_f7", arg |-> 0],
    [op |-> "InvalidF8", mnemonic |-> "invalid_f8", arg |-> 0],
    [op |-> "InvalidF9", mnemonic |-> "invalid_f9", arg |-> 0],
    [op |-> "StaticCall", mnemonic |-> "staticcall", arg |-> 0],
    [op |-> "InvalidFb", mnemonic |-> "invalid_fb", arg |-> 0],
    [op |-> "TxExecGas", mnemonic |-> "txexecgas", arg |-> 0],
    [op |-> "Revert", mnemonic |-> "revert", arg |-> 0],
    [op |-> "Invalid", mnemonic |-> "invalid", arg |-> 0],
    [op |-> "SelfDestruct", mnemonic |-> "selfdestruct", arg |-> 0]
>>

(* The variants of Op<Spec>. *)
Specifiers == {OpsTable[i].op : i \in DOMAIN OpsTable}

(* The first row of the table that the pattern of variant sp matches. *)
RowOf(sp) ==
    CHOOSE i \in DOMAIN OpsTable :
        /\ OpsTable[i].op = sp
        /\ \A j \in 1..(i - 1) : OpsTable[j].op # sp

(* Op::<Spec>::from(v): LUT[v as usize]. *)
Lut(v) == OpsTable[v + 1].op

(* to_u8 counting the rows from one. *)
ToU8FromOne(sp) ==
    IF \E i \in 1..(Len(OpsTable) - 1) : OpsTable[i].op = sp
    THEN RowOf(sp) % 256
    ELSE 0

(* to_u8!: the number of rows tried before one matches, the last row       *)
(* taken without a test.                                                   *)
to_u8(sp) ==
    IF \E i \in 1..(Len(OpsTable) - 1) : OpsTable[i].op = sp
    THEN RowOf(sp) - 1
    ELSE Len(OpsTable) - 1

(* Specifier::extra_len(): the length of the immediate. *)
extra_len(sp) == OpsTable[RowOf(sp)].arg

(* Display that writes the name of the variant. *)
DisplayVariant(sp) == sp

(* Display for Op<Spec>: the mnemonic of the matching arm. *)
Display(sp) == OpsTable[RowOf(sp)].mnemonic

(* FromStr for Op<Spec>: the first arm whose mnemonic is the text, or       *)
(* UnknownSpecifier ("" here).                                             *)
FromStr(text) ==
    IF \E i \in DOMAIN OpsTable : OpsTable[i].mnemonic = text
    THEN OpsTable[CHOOSE i \in DOMAIN OpsTable :
                    /\ OpsTable[i].mnemonic = text
                    /\ \A j \in 1..(i - 1) : OpsTable[j].mnemonic # text].op
    ELSE ""

(* u8::leading_zeros of one byte, w bits of it still to look at. *)
RECURSIVE LeadingZeros8(_, _)
LeadingZeros8(b, w) ==
    IF w = 0 \/ b >= 2 ^ (w - 1) THEN 0
    ELSE 1 + LeadingZeros8(b, w - 1)

(* u32::leading_zeros, the u32 given as its four big-endian bytes. *)
RECURSIVE LeadingZeros(_)
LeadingZeros(n) ==
    IF n = <<>> THEN 0
    ELSE IF Head(n) = 0 THEN 8 + LeadingZeros(Tail(n))
    ELSE LeadingZeros8(Head(n), 8)

(* push_for with the bits divided by 8 and not rounded up. *)
PushForFloor(n) ==
    SpecifierPush((8 * Len(n) - LeadingZeros(n)) \div 8)

(* Specifier::push_for(n): bits = 32 - n.leading_zeros(),                  *)
(* bytes = (bits + 8 - 1) / 8, Self::push(bytes).                          *)
push_for(n) ==
    LET bits == 8 * Len(n) - LeadingZeros(n)
        bytes == (bits + 8 - 1) \div 8
    IN  SpecifierPush(bytes)

(* An Op<Concrete>: the variant and its immediate, an array of extra_len   *)
(* bytes.                                                                  *)
ConcreteOp(sp, imm) == [sp |-> sp, imm |-> imm]

(* assemble that leaves the immediate out. *)
AssembleBare(cop) == <<to_u8(cop.sp)>>

(* Op<Concrete>::assemble with the specifier kept as a variant:            *)
(* buf.push(self.specifier().into()); buf.extend_from_slice(args).         *)
assemble(cop) == <<to_u8(cop.sp)>> \o cop.imm

(* Op<Concrete>::from_slice: panics on an empty slice (bytes[0]) and on a  *)
(* slice that is not 1 + extra_len long.                                   *)
from_slice(bytes) ==
    IF bytes = <<>> THEN [r |-> "Panic", op |-> ConcreteOp("", <<>>)]
    ELSE LET specifier == Lut(bytes[1])
             sz == extra_len(specifier) + 1
         IN  IF Len(bytes) # sz
             THEN [r |-> "Panic", op |-> ConcreteOp("", <<>>)]
             ELSE [r |-> "Ok", op |-> ConcreteOp(specifier, Tail(bytes))]

(* One call of a conversion: the function, and the byte, specifier, text,  *)
(* u32, push width, concrete op and encoding it was given or returned.     *)
NoCall ==
    [fn |-> "none", byte |-> None, sp |-> "", text |-> "", n |-> <<>>,
     push |-> None, cop |-> ConcreteOp("", <<>>), bytes |-> <<>>, ok |-> TRUE]

-----------------------------------------------------------------------------
(* Errors (asm::Error). *)

OkErr == [kind |-> "Ok", name |-> <<>>, labels |-> <<>>, value |-> <<>>]
ErrNamed(kind, name) ==
    [kind |-> kind, name |-> name, labels |-> <<>>, value |-> <<>>]
ErrLabels(labels) ==
    [kind |-> "UndeclaredLabels", name |-> <<>>, labels |-> labels, value |-> <<>>]
(* An error that carries the evaluated value. *)
ErrValue(kind, value) ==
    [kind |-> kind, name |-> <<>>, labels |-> <<>>, value |-> <<value>>]

Fail(s, e) == [s EXCEPT !.err = e]
Panic(s) == [s EXCEPT !.panic = TRUE]
Stopped(s) == s.panic \/ s.err.kind # "Ok"

PendingLabel(label, position) == [label |-> label, position |-> position]
PendingMacro(name, parameters, position) ==
    [name |-> name, parameters |-> parameters, position |-> position]

(* The names held in undefined_labels, in order. *)
UndefinedNames(uls) == [i \in DOMAIN uls |-> uls[i].label]

-----------------------------------------------------------------------------
(* Assembler::declare_content *)

(* declare_content letting a second declaration of a label through. *)
DeclareContentAgain(s, rop) ==
    LET s1 ==
          CASE rop.k = "label" ->
                 [s EXCEPT !.declared_labels = Put(@, rop.l, None)]
            [] rop.k \in {"mdef", "edef"} ->
                 IF rop.name \in DOMAIN s.declared_macros
                 THEN Fail(s, ErrNamed("DuplicateMacro", <<rop.name>>))
                 ELSE [s EXCEPT !.declared_macros = Put(@, rop.name, rop)]
            [] OTHER -> s
        used == IF HasExpr(rop) /\ LabelsOk(rop.e, s.declared_macros)
                THEN ExprLabels(rop.e) ELSE <<>>
        fresh == SelectSeq(used, LAMBDA l : l \notin DOMAIN s1.declared_labels)
    IN  IF Stopped(s1) THEN s1
        ELSE [s1 EXCEPT !.undefined_labels =
                 @ \o [i \in DOMAIN fresh |->
                          PendingLabel(fresh[i], Len(s1.ready))]]

(* declare_content letting a second definition of a macro replace the      *)
(* first.                                                                  *)
DeclareContentRedefine(s, rop) ==
    LET s1 ==
          CASE rop.k = "label" ->
                 IF rop.l \in DOMAIN s.declared_labels
                 THEN Fail(s, ErrNamed("DuplicateLabel", rop.l))
                 ELSE [s EXCEPT !.declared_labels = Put(@, rop.l, None)]
            [] rop.k \in {"mdef", "edef"} ->
                 [s EXCEPT !.declared_macros = Put(@, rop.name, rop)]
            [] OTHER -> s
        used == IF HasExpr(rop) /\ LabelsOk(rop.e, s.declared_macros)
                THEN ExprLabels(rop.e) ELSE <<>>
        fresh == SelectSeq(used, LAMBDA l : l \notin DOMAIN s1.declared_labels)
    IN  IF Stopped(s1) THEN s1
        ELSE [s1 EXCEPT !.undefined_labels =
                 @ \o [i \in DOMAIN fresh |->
                          PendingLabel(fresh[i], Len(s1.ready))]]

declare_content(s, rop) ==
    LET s1 ==
          CASE rop.k = "label" ->
                 IF rop.l \in DOMAIN s.declared_labels
                 THEN Fail(s, ErrNamed("DuplicateLabel", rop.l))
                 ELSE [s EXCEPT !.declared_labels = Put(@, rop.l, None)]
            [] rop.k \in {"mdef", "edef"} ->
                 IF rop.name \in DOMAIN s.declared_macros
                 THEN Fail(s, ErrNamed("DuplicateMacro", <<rop.name>>))
                 ELSE [s EXCEPT !.declared_macros = Put(@, rop.name, rop)]
            [] OTHER -> s
        used == IF HasExpr(rop) /\ LabelsOk(rop.e, s.declared_macros)
                THEN ExprLabels(rop.e) ELSE <<>>
        fresh == SelectSeq(used, LAMBDA l : l \notin DOMAIN s1.declared_labels)
    IN  IF Stopped(s1) THEN s1
        ELSE [s1 EXCEPT !.undefined_labels =
                 @ \o [i \in DOMAIN fresh |->
                          PendingLabel(fresh[i], Len(s1.ready))]]

-----------------------------------------------------------------------------
(* The least an item can take in the output: Op::size() of a typed op, the *)
(* assumed size of an unsized push, the length of a raw blob.              *)
MinSize(rop) ==
    CASE rop.k = "raw" -> Len(rop.bytes)
      [] rop.k = "push" -> MinUnsizedSize
      [] OTHER -> OpSize(rop)

(* Where an item goes in ready: ready.push(rop) or ready.insert(pos, rop). *)
(* nadmitted counts the items ever placed and min_len adds up their least  *)
(* sizes; decl_idx of the labels placed after the insertion point moves    *)
(* with the items behind them.  Vec::insert and Vec::splice panic when pos *)
(* is past the end.                                                        *)

Place(s, rop, pos) ==
    IF pos = None
    THEN [s EXCEPT !.ready = Append(@, rop), !.nadmitted = @ + 1,
                   !.min_len = @ + MinSize(rop)]
    ELSE IF pos > Len(s.ready) THEN Panic(s)
    ELSE [s EXCEPT !.ready = InsertAt(@, pos, rop),
                   !.nadmitted = @ + 1,
                   !.min_len = @ + MinSize(rop),
                   !.decl_idx = [l \in DOMAIN @ |->
                                   IF @[l] > s.ndrained + pos
                                   THEN @[l] + 1 ELSE @[l]]]

(* The width correction of the Label branch. *)
RECURSIVE WidthCorrection(_, _, _)
WidthCorrection(uls, label, len) ==
    IF uls = <<>> THEN 0
    ELSE LET ul == Head(uls)
             rest == WidthCorrection(Tail(uls), label, len)
         IN  IF ul.label = label
             THEN Max((len - ul.position) \div WidthStep, rest)
             ELSE rest

(* A first pass that renames a label declared again without complaint. *)
RECURSIVE FirstPassUnchecked(_, _, _, _)
FirstPassUnchecked(contents, mname, rnd, acc) ==
    IF contents = <<>> THEN [acc EXCEPT !.rnd = rnd]
    ELSE LET op == Head(contents) IN
         IF op.k = "label"
         THEN LET mangled == Mangle(mname, op.l, Head(rnd)) IN
              FirstPassUnchecked(Tail(contents), mname, Tail(rnd),
                  [acc EXCEPT !.labels = Put(@, op.l, mangled),
                              !.contents = Append(@, LabelDecl(mangled))])
         ELSE FirstPassUnchecked(Tail(contents), mname, rnd,
                  [acc EXCEPT !.contents = Append(@, op)])

(* Mangling of the labels a macro body declares (first pass). *)
RECURSIVE FirstPass(_, _, _, _)
FirstPass(contents, mname, rnd, acc) ==
    IF contents = <<>> \/ acc.dup # <<>> THEN [acc EXCEPT !.rnd = rnd]
    ELSE LET op == Head(contents) IN
         IF op.k = "label"
         THEN LET mangled == Mangle(mname, op.l, Head(rnd)) IN
              IF op.l \in DOMAIN acc.labels
              THEN [acc EXCEPT !.dup = <<op.l>>, !.rnd = Tail(rnd)]
              ELSE FirstPass(Tail(contents), mname, Tail(rnd),
                       [acc EXCEPT !.labels = Put(@, op.l, mangled),
                                   !.contents = Append(@, LabelDecl(mangled))])
         ELSE FirstPass(Tail(contents), mname, rnd,
                  [acc EXCEPT !.contents = Append(@, op)])

RECURSIVE ReplaceLabels(_, _, _)
ReplaceLabels(e, lbls, labels) ==
    IF lbls = <<>> THEN e
    ELSE LET lbl == Head(lbls) IN
         ReplaceLabels(
             IF lbl \in DOMAIN labels THEN ReplaceLabel(e, lbl, labels[lbl]) ELSE e,
             Tail(lbls), labels)

(* A second pass that leaves the references to local labels as written. *)
SecondPassKeepNames(contents, labels, names, values) ==
    [i \in DOMAIN contents |->
        LET op == contents[i] IN
        IF HasExpr(op)
        THEN [op EXCEPT !.e = FillVariables(@, names, values)]
        ELSE op]

(* A second pass that fills the parameters in before it renames. *)
SecondPassFillFirst(contents, labels, names, values) ==
    [i \in DOMAIN contents |->
        LET op == contents[i] IN
        IF HasExpr(op)
        THEN LET filled == FillVariables(op.e, names, values) IN
             [op EXCEPT !.e = ReplaceLabels(filled, ExprLabels(filled), labels)]
        ELSE op]

(* Second pass: rename the references to local labels, then fill parameters. *)
SecondPass(contents, labels, names, values) ==
    [i \in DOMAIN contents |->
        LET op == contents[i] IN
        IF HasExpr(op)
        THEN [op EXCEPT !.e = FillVariables(
                                  ReplaceLabels(@, ExprLabels(@), labels),
                                  names, values)]
        ELSE op]

-----------------------------------------------------------------------------
(* Assembler::push, push_rawop, expand_macro *)

RECURSIVE push(_, _, _)
RECURSIVE push_rawop(_, _, _)
RECURSIVE expand_macro(_, _, _, _)
RECURSIVE PushBody(_, _, _, _)
RECURSIVE ExpandQueued(_, _)

(* The Label branch without undefined_labels.retain(..). *)
DeclareLabelKeepPending(s, label, pos) ==
    LET dst == WidthCorrection(s.undefined_labels, label, s.concrete_len) IN
    [s EXCEPT !.declared_labels = Put(@, label, s.concrete_len + dst),
              !.decl_idx = Put(@, label,
                               s.ndrained
                                 + (IF pos = None THEN Len(s.ready) ELSE pos))]

(* The Label branch measuring the width correction from the start of the  *)
(* output and not from the reference.                                      *)
DeclareLabelFromStart(s, label, pos) ==
    LET dst == IF \E i \in DOMAIN s.undefined_labels :
                     s.undefined_labels[i].label = label
               THEN s.concrete_len \div WidthStep
               ELSE 0
    IN  [s EXCEPT
           !.undefined_labels = SelectSeq(@, LAMBDA l : l.label # label),
           !.declared_labels = Put(@, label, s.concrete_len + dst),
           !.decl_idx = Put(@, label,
                            s.ndrained
                              + (IF pos = None THEN Len(s.ready) ELSE pos))]

(* The Label branch of push_rawop.  concrete_len - ul.position is a usize  *)
(* subtraction: below zero it panics where overflow checks are compiled   *)
(* in and wraps to about 2^64 where they are not, which records the label *)
(* near 2^56; either way the run has left the assembler's defined         *)
(* behaviour and is stopped here.                                         *)
DeclareLabel(s, label, pos) ==
    LET underflow == \E i \in DOMAIN s.undefined_labels :
                        /\ s.undefined_labels[i].label = label
                        /\ s.undefined_labels[i].position > s.concrete_len
        dst == WidthCorrection(s.undefined_labels, label, s.concrete_len)
    IN  IF underflow THEN Panic(s)
        ELSE [s EXCEPT
                !.undefined_labels = SelectSeq(@, LAMBDA l : l.label # label),
                !.declared_labels = Put(@, label, s.concrete_len + dst),
                !.decl_idx = Put(@, label,
                                 s.ndrained
                                   + (IF pos = None THEN Len(s.ready) ELSE pos))]

(* The op branch appending the op before it reports a negative value. *)
AdmitOpKeepNegative(s, rop, pos) ==
    LET c == Concretize(rop, Context(s.declared_labels, s.declared_macros)) IN
    CASE c.r = "Ok" ->
           Place([s EXCEPT !.concrete_len = @ + Len(Assemble(c))], rop, pos)
      [] c.r = "ExpressionTooLarge" ->
           Fail(s, ErrValue("ExpressionTooLarge", c.v))
      [] c.r = "ExpressionNegative" ->
           Fail(Place(s, rop, pos), ErrValue("ExpressionNegative", c.v))
      [] c.r = "UnknownMacro" ->
           Fail(s, ErrNamed("UndeclaredInstructionMacro", <<c.v>>))
      [] c.r = "UnknownLabel" ->
           LET size == IF OpSize(rop) = None THEN MinUnsizedSize
                       ELSE OpSize(rop)
           IN  Place([s EXCEPT !.concrete_len = @ + size], rop, None)
      [] OTHER -> Panic(s)

(* The op branch counting one byte for an op that waits for a label. *)
AdmitOpPendingByte(s, rop, pos) ==
    LET c == Concretize(rop, Context(s.declared_labels, s.declared_macros)) IN
    CASE c.r = "Ok" ->
           Place([s EXCEPT !.concrete_len = @ + Len(Assemble(c))], rop, pos)
      [] c.r = "ExpressionTooLarge" ->
           Fail(s, ErrValue("ExpressionTooLarge", c.v))
      [] c.r = "ExpressionNegative" ->
           Fail(s, ErrValue("ExpressionNegative", c.v))
      [] c.r = "UnknownMacro" ->
           Fail(s, ErrNamed("UndeclaredInstructionMacro", <<c.v>>))
      [] c.r = "UnknownLabel" ->
           Place([s EXCEPT !.concrete_len = @ + 1], rop, None)
      [] OTHER -> Panic(s)

(* The op branch of push_rawop: a typed op or an unsized push. *)
AdmitOp(s, rop, pos) ==
    LET c == Concretize(rop, Context(s.declared_labels, s.declared_macros)) IN
    CASE c.r = "Ok" ->
           Place([s EXCEPT !.concrete_len = @ + Len(Assemble(c))], rop, pos)
      [] c.r = "ExpressionTooLarge" ->
           Fail(s, ErrValue("ExpressionTooLarge", c.v))
      [] c.r = "ExpressionNegative" ->
           Fail(s, ErrValue("ExpressionNegative", c.v))
      [] c.r = "UnknownMacro" ->
           Fail(s, ErrNamed("UndeclaredInstructionMacro", <<c.v>>))
      [] c.r = "UnknownLabel" ->
           LET size == IF OpSize(rop) = None THEN MinUnsizedSize
                       ELSE OpSize(rop)
           IN  Place([s EXCEPT !.concrete_len = @ + size], rop, None)
      [] OTHER -> Panic(s)

(* The Raw branch leaving concrete_len as it is. *)
AdmitRawUncounted(s, rop, pos) == Place(s, rop, pos)

(* The Raw branch of push_rawop. *)
AdmitRaw(s, rop, pos) ==
    Place([s EXCEPT !.concrete_len = @ + Len(rop.bytes)], rop, pos)

push_rawop(s, rop, pos) ==
    CASE rop.k = "label" -> DeclareLabel(s, rop.l, pos)
      [] rop.k \in {"mdef", "edef"} ->
           LET queued == SelectSeq(s.undefined_macros,
                                   LAMBDA um : um.name = rop.name)
           IN  ExpandQueued(
                   [s EXCEPT !.undefined_macros =
                        SelectSeq(@, LAMBDA um : um.name # rop.name)],
                   queued)
      [] rop.k = "macro" -> s
      [] rop.k = "raw" -> AdmitRaw(s, rop, pos)
      [] OTHER -> AdmitOp(s, rop, pos)

(* for (name, parameters, offset) in macros_to_expand { expand_macro(..)? } *)
ExpandQueued(s, queued) ==
    IF queued = <<>> \/ Stopped(s) THEN s
    ELSE LET um == Head(queued) IN
         ExpandQueued(expand_macro(s, um.name, um.parameters, um.position),
                      Tail(queued))

(* for op in m.contents { push(op, Some(len - actual_size + pos))? } and,  *)
(* with position None, push_all(m.contents).                               *)
PushBody(s, contents, position, actual_size) ==
    IF contents = <<>> \/ Stopped(s) THEN s
    ELSE LET offset == IF position = None THEN None
                       ELSE Len(s.ready) - actual_size + position
         IN  PushBody(push(s, Head(contents), offset), Tail(contents),
                      position, actual_size)

expand_macro(s, name, parameters, position) ==
    IF name \in DOMAIN s.declared_macros /\ s.declared_macros[name].k = "mdef"
    THEN LET m == s.declared_macros[name] IN
         IF Len(m.params) # Len(parameters) THEN Panic(s)
         \* push and expand_macro call each other with no counter of the
         \* nesting: a body that reaches its own invocation recurses until
         \* the call stack is gone and the process aborts.
         ELSE IF s.depth >= MaxDepth THEN Panic(s)
         ELSE LET first == FirstPass(m.contents, m.name, s.rnd,
                               [labels |-> <<>>, contents |-> <<>>,
                                dup |-> <<>>, rnd |-> <<>>])
                  s1 == [s EXCEPT !.rnd = first.rnd]
              IN  IF first.dup # <<>>
                  THEN Fail(s1, ErrNamed("DuplicateLabel", first.dup[1]))
                  ELSE IF \E i \in DOMAIN first.contents :
                             /\ HasExpr(first.contents[i])
                             /\ ~LabelsOk(first.contents[i].e, s.declared_macros)
                  THEN Panic(s1)
                  ELSE LET done == PushBody(
                                       [s1 EXCEPT !.depth = @ + 1],
                                       SecondPass(first.contents, first.labels,
                                                  m.params, parameters),
                                       position, Len(s1.ready))
                       IN  [done EXCEPT !.depth = s.depth]
    ELSE [s EXCEPT !.undefined_macros =
             Append(@, PendingMacro(name, parameters, Len(s.ready)))]

push(s, rop, pos) ==
    LET s1 == declare_content(s, rop) IN
    IF Stopped(s1) THEN s1
    ELSE IF rop.k = "macro"
         THEN expand_macro(s1, rop.name, rop.params, None)
         ELSE push_rawop(s1, rop, pos)

-----------------------------------------------------------------------------
(* Assembler::concretize_ops, take, finish *)

RECURSIVE ConcretizeFrom(_, _, _)
ConcretizeFrom(items, ctx, acc) ==
    IF items = <<>> THEN [r |-> "Ok", chunks |-> acc]
    ELSE LET op == Head(items) IN
         IF op.k = "raw"
         THEN ConcretizeFrom(Tail(items), ctx, Append(acc, op.bytes))
         ELSE LET c == Concretize(op, ctx) IN
              CASE c.r = "Ok" ->
                     ConcretizeFrom(Tail(items), ctx, Append(acc, Assemble(c)))
                [] c.r = "UnknownLabel" -> [r |-> "UndeclaredLabels", chunks |-> <<>>]
                [] c.r = "UnknownMacro" ->
                     [r |-> "UndeclaredInstructionMacro", chunks |-> <<>>]
                [] OTHER -> [r |-> "Panic", chunks |-> <<>>]

(* Ok(chunks): the encoding of every item of ready, in order;              *)
(* UndeclaredLabels: some item refers to an unknown label; Panic: todo!()  *)
(* or unreachable!().                                                      *)
concretize_ops(items, ctx) == ConcretizeFrom(items, ctx, <<>>)

(* take without self.ready.clear(). *)
TakeReadyKeep(items, output) == items

(* What take does to ready. *)
TakeReady(items, output) == IF output.r = "Ok" THEN <<>> ELSE items

(* What take returns. *)
TakeOutput(output) == IF output.r = "Ok" THEN output.chunks ELSE <<>>

(* finish without the check of undefined_macros. *)
FinishLabelsOnly(uls, ums) ==
    IF uls # <<>> THEN ErrLabels(UndefinedNames(uls)) ELSE OkErr

(* What finish returns. *)
finish(uls, ums) ==
    IF uls # <<>> THEN ErrLabels(UndefinedNames(uls))
    ELSE IF ums # <<>>
         THEN ErrNamed("UndeclaredInstructionMacro", <<ums[1].name>>)
         ELSE OkErr

-----------------------------------------------------------------------------
(* The items a run may push.  Each run draws from one alphabet.            *)

A == Lbl("a")
B == Lbl("b")

Blob == [i \in 1..BlobLen |-> GetPcByte]

BodyM == <<LabelDecl(A), PushN(1, LabelRef(A)), PushN(1, LabelRef(B))>>

BodyS == <<LabelDecl(A), PushN(1, LabelRef(A))>>

(* Bodies that invoke a macro: r invokes itself, p and q invoke each other. *)
BodyR == <<Op(JumpDestByte), MacroInv("r", <<>>)>>
BodyP == <<MacroInv("q", <<>>)>>
BodyQ == <<Op(GetPcByte), MacroInv("p", <<>>)>>

(* A body that declares the label a twice, an op between the two. *)
BodyD == <<LabelDecl(A), Op(JumpDestByte), LabelDecl(A)>>

(* A body that declares a label a, pushes its parameter x and pushes a. *)
BodyX == <<LabelDecl(A), PushN(1, Var("x")), PushN(1, LabelRef(A))>>

BodyJ == <<Op(JumpDestByte)>>
BodyG == <<Op(GetPcByte)>>

Alphabet(p) ==
    CASE p = "labels" ->
           {Op(JumpDestByte), PushU(LabelRef(A)), PushN(1, LabelRef(A)),
            LabelDecl(A), PushU(LabelRef(B)), LabelDecl(B)}
      [] p = "wide" ->
           {Raw(Blob), PushU(LabelRef(A)), PushN(1, LabelRef(A)),
            PushN(2, LabelRef(A)), LabelDecl(A), LabelDecl(B)}
      [] p = "macro" ->
           {MacroInv("m", <<>>), MacroDef("m", <<>>, BodyM), Op(GetPcByte),
            PushN(1, LabelRef(A)), LabelDecl(B)}
      [] p = "const" ->
           {PushU(Num(0)), PushU(Num(255)), PushU(Num(256)), PushU(Num(65536)),
            PushU(Plus(Num(1), LabelRef(A))), LabelDecl(A)}
      [] p = "typed" ->
           {PushN(1, Num(255)), PushN(1, Num(256)), PushN(2, Num(255)),
            PushN(1, Num(-1)), PushU(Num(-1)),
            PushN(1, Plus(LabelRef(A), Num(-1))), LabelDecl(A)}
      [] p = "errors" ->
           {PushU(Wide(MaxPushWidth + 1)), PushU(Wide(MaxPushWidth)),
            PushN(1, Call("f", <<>>)), ExprMacroDef("f", <<>>, Num(2)),
            Op(GetPcByte)}
      [] p = "recursive" ->
           {MacroDef("r", <<>>, BodyR), MacroInv("r", <<>>),
            MacroDef("p", <<>>, BodyP), MacroDef("q", <<>>, BodyQ),
            MacroInv("p", <<>>)}
      [] p = "misuse" ->
           {MacroDef("m", <<>>, BodyD), MacroInv("m", <<>>),
            MacroInv("m", <<Num(1)>>), Op(GetPcByte)}
      [] p = "params" ->
           {LabelDecl(A), MacroDef("m", <<"x">>, BodyX),
            MacroInv("m", <<LabelRef(A)>>), Op(JumpDestByte)}
      [] p = "shadow" ->
           {LabelDecl(A), MacroDef("m", <<>>, BodyS), MacroInv("m", <<>>),
            PushN(1, LabelRef(A))}
      [] p = "empty" ->
           {Raw(<<>>), PushU(LabelRef(A)), LabelDecl(A)}
      [] p = "names" ->
           {MacroInv("m", <<>>), MacroInv("n", <<>>), MacroDef("m", <<>>, BodyJ),
            MacroDef("m", <<>>, BodyG), ExprMacroDef("m", <<>>, Num(2))}

Profiles == {"labels", "wide", "macro", "const", "names", "shadow", "typed", "errors",
             "recursive", "misuse", "params", "empty"}

(* How many pushes a run makes: the runs with empty blobs need one more    *)
(* to put three items and no byte in front of a reference.                 *)
PushLimit(p) == IF p = "empty" THEN MaxEmptyPush ELSE MaxPush

(* The body declares some label more than once. *)
DeclaresTwice(contents) ==
    \E i, j \in DOMAIN contents :
        /\ i < j
        /\ contents[i].k = "label"
        /\ contents[j].k = "label"
        /\ contents[i].l = contents[j].l

RECURSIVE CountLabels(_)
CountLabels(contents) ==
    IF contents = <<>> THEN 0
    ELSE (IF Head(contents).k = "label" THEN 1 ELSE 0) + CountLabels(Tail(contents))

(* How many random ids the call draws: one per label of each expansion;   *)
(* a body that repeats a label ends the call in its first expansion.      *)
Draws(item) ==
    CASE item.k = "macro" ->
           IF /\ item.name \in DOMAIN declared_macros
              /\ declared_macros[item.name].k = "mdef"
           THEN CountLabels(declared_macros[item.name].contents) ELSE 0
      [] item.k = "mdef" ->
           LET queued == Len(SelectSeq(undefined_macros,
                                       LAMBDA um : um.name = item.name))
               run == IF DeclaresTwice(item.contents) /\ queued > 0
                      THEN 1 ELSE queued
           IN  run * CountLabels(item.contents)
      [] OTHER -> 0

-----------------------------------------------------------------------------
(* The state machine. *)

(* res: the call, the error or Ok, the length push returned, and for take  *)
(* the encodings returned (item by item) and the items ready held.         *)
Result(op, err, n, chunks, items) ==
    [op |-> op, err |-> err, n |-> n, chunks |-> chunks, items |-> items]

NoRes == Result("new", OkErr, 0, <<>>, <<>>)

(* What prev keeps of a call: what a push returned, or that it was a take. *)
(* finish changes nothing, so the call before it stays the previous one.   *)
Summary(r) ==
    IF r.op = "push" THEN [op |-> r.op, kind |-> r.err.kind, n |-> r.n]
    ELSE [op |-> r.op, kind |-> "Ok", n |-> 0]

Previous == IF res.op = "finish" THEN prev ELSE Summary(res)

InitWith(profiles) ==
    /\ ready = <<>>
    /\ concrete_len = 0
    /\ declared_labels = <<>>
    /\ declared_macros = <<>>
    /\ undefined_labels = <<>>
    /\ undefined_macros = <<>>
    /\ panicked = FALSE
    /\ profile \in profiles
    /\ program = <<>>
    /\ out = <<>>
    /\ nadmitted = 0
    /\ min_len = 0
    /\ decl_idx = <<>>
    /\ failed = FALSE
    /\ prev = Summary(NoRes)
    /\ res = NoRes
    /\ call = NoCall

(* The assembler at the start of a call. *)
Cur(rnd) ==
    [ready |-> ready, concrete_len |-> concrete_len,
     declared_labels |-> declared_labels, declared_macros |-> declared_macros,
     undefined_labels |-> undefined_labels, undefined_macros |-> undefined_macros,
     err |-> OkErr, panic |-> FALSE, rnd |-> rnd,
     nadmitted |-> nadmitted, min_len |-> min_len, decl_idx |-> decl_idx,
     ndrained |-> Len(out), depth |-> 0]

(* asm.push(item, None): returns Ok(concrete_len) or the error. *)
Push(item, rnd) ==
    /\ ~panicked
    /\ Len(program) < PushLimit(profile)
    /\ LET s == push(Cur(rnd), item, None) IN
       /\ ready' = s.ready
       /\ concrete_len' = s.concrete_len
       /\ declared_labels' = s.declared_labels
       /\ declared_macros' = s.declared_macros
       /\ undefined_labels' = s.undefined_labels
       /\ undefined_macros' = s.undefined_macros
       /\ nadmitted' = s.nadmitted
       /\ min_len' = s.min_len
       /\ decl_idx' = s.decl_idx
       /\ panicked' = s.panic
       /\ failed' = (failed \/ s.err.kind # "Ok")
       /\ res' = Result("push", s.err, s.concrete_len, <<>>, <<>>)
    /\ program' = Append(program, [item |-> item, rnd |-> rnd])
    /\ prev' = Previous
    /\ UNCHANGED <<profile, out, call>>

(* asm.take() *)
Take ==
    /\ ~panicked
    /\ LET output == concretize_ops(ready,
                                    Context(declared_labels, declared_macros)) IN
       /\ ready' = TakeReady(ready, output)
       /\ out' = out \o TakeOutput(output)
       /\ panicked' = (output.r = "Panic")
       /\ res' = Result("take", OkErr, 0, TakeOutput(output), ready)
    /\ prev' = Previous
    /\ UNCHANGED <<concrete_len, declared_labels, declared_macros,
                   undefined_labels, undefined_macros, profile, program,
                   nadmitted, min_len, decl_idx, failed, call>>

(* finish emptying both pending lists after it has reported them. *)
FinishClearsPending ==
    /\ ~panicked
    /\ res' = Result("finish", finish(undefined_labels, undefined_macros),
                      0, <<>>, <<>>)
    /\ prev' = Previous
    /\ undefined_labels' = <<>>
    /\ undefined_macros' = <<>>
    /\ UNCHANGED <<ready, concrete_len, declared_labels, declared_macros,
                   panicked, profile, program, out, nadmitted, min_len,
                   decl_idx, failed, call>>

(* asm.finish() *)
Finish ==
    /\ ~panicked
    /\ res' = Result("finish", finish(undefined_labels, undefined_macros),
                      0, <<>>, <<>>)
    /\ prev' = Previous
    /\ UNCHANGED <<ready, concrete_len, declared_labels, declared_macros,
                   undefined_labels, undefined_macros, panicked, profile,
                   program, out, nadmitted, min_len, decl_idx, failed, call>>

Next ==
    \/ \E item \in Alphabet(profile) :
         \E rnd \in [1..Draws(item) -> 1..MaxRand] : Push(item, rnd)
    \/ Take
    \/ Finish

Init == InitWith(Profiles)

Spec == Init /\ [][Next]_vars

(* The same machine, each run drawing its items from one alphabet. *)
SpecLabels == InitWith({"labels"}) /\ [][Next]_vars
SpecWide == InitWith({"wide"}) /\ [][Next]_vars
SpecMacro == InitWith({"macro"}) /\ [][Next]_vars
SpecConst == InitWith({"const"}) /\ [][Next]_vars

SpecNames == InitWith({"names"}) /\ [][Next]_vars
SpecShadow == InitWith({"shadow"}) /\ [][Next]_vars
SpecTyped == InitWith({"typed"}) /\ [][Next]_vars
SpecErrors == InitWith({"errors"}) /\ [][Next]_vars
SpecRecursive == InitWith({"recursive"}) /\ [][Next]_vars
SpecMisuse == InitWith({"misuse"}) /\ [][Next]_vars
SpecParams == InitWith({"params"}) /\ [][Next]_vars
SpecEmpty == InitWith({"empty"}) /\ [][Next]_vars

(* The runs over the alphabets that hold unsized pushes. *)
SpecPushes == InitWith({"labels", "wide", "const"}) /\ [][Next]_vars

-----------------------------------------------------------------------------
(* The conversions of ops.rs, applied to inputs drawn at the start.        *)

(* The bytes an immediate or a u32 is drawn from. *)
EdgeBytes == {0, 1, 255}

(* Texts that are no mnemonic. *)
NotMnemonics == {"", "push", "push33", "PUSH1", "Stop", "invalid_fe"}

Texts == {OpsTable[i].mnemonic : i \in DOMAIN OpsTable} \cup NotMnemonics

(* u32 values as four big-endian bytes. *)
U32s == [1..4 -> EdgeBytes]

(* Immediates of n bytes. *)
Imms(n) ==
    {[i \in 1..n |-> IF i = 1 THEN a ELSE b] : a, b \in EdgeBytes \ {1}}

ConcreteOps ==
    UNION {{ConcreteOp(sp, imm) : imm \in Imms(extra_len(sp))} : sp \in Specifiers}

(* Slices handed to from_slice: of the right length, too short, too long.  *)
Slices ==
    {<<>>} \cup {<<b>> \o imm : b \in 0..255, imm \in {<<>>, <<7>>, <<7, 7>>}}

Inputs ==
    {[NoCall EXCEPT !.fn = "byte", !.byte = b] : b \in 0..255}
      \cup {[NoCall EXCEPT !.fn = "specifier", !.sp = sp] : sp \in Specifiers}
      \cup {[NoCall EXCEPT !.fn = "text", !.text = text] : text \in Texts}
      \cup {[NoCall EXCEPT !.fn = "u32", !.n = n] : n \in U32s}
      \cup {[NoCall EXCEPT !.fn = "op", !.cop = cop] : cop \in ConcreteOps}
      \cup {[NoCall EXCEPT !.fn = "slice", !.bytes = bytes] : bytes \in Slices}

InitOps ==
    /\ ready = <<>>
    /\ concrete_len = 0
    /\ declared_labels = <<>>
    /\ declared_macros = <<>>
    /\ undefined_labels = <<>>
    /\ undefined_macros = <<>>
    /\ panicked = FALSE
    /\ profile = "ops"
    /\ program = <<>>
    /\ out = <<>>
    /\ nadmitted = 0
    /\ min_len = 0
    /\ decl_idx = <<>>
    /\ failed = FALSE
    /\ prev = Summary(NoRes)
    /\ res = NoRes
    /\ call \in Inputs

(* No conversion touches an assembler. *)
NoAssembler ==
    UNCHANGED <<ready, concrete_len, declared_labels, declared_macros,
                undefined_labels, undefined_macros, panicked, profile,
                program, out, nadmitted, min_len, decl_idx, failed, prev,
                res>>

(* Specifier::from(byte) *)
FromU8 ==
    /\ call.fn \in {"byte", "to_u8"}
    /\ call' = [call EXCEPT !.fn = "from_u8", !.sp = Lut(call.byte)]
    /\ NoAssembler

(* u8::from(specifier) *)
IntoU8 ==
    /\ call.fn \in {"specifier", "from_u8"}
    /\ call' = [call EXCEPT !.fn = "to_u8", !.byte = to_u8(call.sp)]
    /\ NoAssembler

(* specifier.to_string() *)
ToText ==
    /\ call.fn \in {"specifier", "from_u8", "from_str"}
    /\ call.ok
    /\ call' = [call EXCEPT !.fn = "to_string", !.text = Display(call.sp)]
    /\ NoAssembler

(* text.parse::<Specifier>() *)
Parse ==
    /\ call.fn \in {"text", "to_string"}
    /\ call' = [call EXCEPT !.fn = "from_str", !.sp = FromStr(call.text),
                            !.ok = (FromStr(call.text) # "")]
    /\ NoAssembler

(* Specifier::push_for(n) *)
PushFor ==
    /\ call.fn = "u32"
    /\ call' = [call EXCEPT !.fn = "push_for", !.push = push_for(call.n)]
    /\ NoAssembler

(* op.assemble(&mut buf) on an empty buffer *)
AssembleOp ==
    /\ call.fn \in {"op", "from_slice"}
    /\ call.ok
    /\ call' = [call EXCEPT !.fn = "assemble", !.bytes = assemble(call.cop)]
    /\ NoAssembler

(* ConcreteOp::from_slice(bytes) *)
FromSlice ==
    /\ call.fn \in {"slice", "assemble"}
    /\ LET decoded == from_slice(call.bytes) IN
       call' = [call EXCEPT !.fn = "from_slice", !.cop = decoded.op,
                            !.ok = (decoded.r = "Ok")]
    /\ NoAssembler

NextOps ==
    \/ FromU8
    \/ IntoU8
    \/ ToText
    \/ Parse
    \/ PushFor
    \/ AssembleOp
    \/ FromSlice

SpecOps == InitOps /\ [][NextOps]_vars

-----------------------------------------------------------------------------
(* What the properties below are stated with. *)

(* The items of a sequence that emit bytes. *)
Emitting(contents) ==
    SelectSeq(contents, LAMBDA op : op.k \in {"op", "pushn", "push", "raw"})

(* The program as written, every macro invocation replaced by the body of  *)
(* the macro of that name, declarations dropped.                           *)
RECURSIVE RefExpand(_)
RefExpand(prog) ==
    IF prog = <<>> THEN <<>>
    ELSE LET item == Head(prog).item IN
         (IF item.k = "macro"
          THEN IF /\ item.name \in DOMAIN declared_macros
                  /\ declared_macros[item.name].k = "mdef"
               THEN Emitting(declared_macros[item.name].contents)
               ELSE <<>>
          ELSE Emitting(<<item>>))
         \o RefExpand(Tail(prog))

(* chunk is an encoding of item: the opcode, and the immediate's length. *)
IsEncodingOf(chunk, item) ==
    CASE item.k = "op" -> chunk = <<item.sp>>
      [] item.k = "raw" -> chunk = item.bytes
      [] item.k = "pushn" ->
           Len(chunk) = item.n + 1 /\ chunk[1] = PushByte(item.n)
      [] item.k = "push" ->
           Len(chunk) >= 2 /\ chunk[1] = PushByte(Len(chunk) - 1)
      [] OTHER -> FALSE

(* The whole program was admitted without error and the last call, a take, *)
(* returned everything that was ever returned.                             *)
DrainedByOneTake ==
    /\ res.op = "take"
    /\ ~panicked
    /\ ~failed
    /\ ready = <<>>
    /\ undefined_labels = <<>>
    /\ undefined_macros = <<>>
    /\ out = res.chunks

(* C1: when a whole program is admitted and then drained by one take, the  *)
(* bytes returned are the encodings of the admitted instructions and blobs *)
(* in admission order, every macro invocation replaced by its body at the  *)
(* point of the invocation, also when the macro is defined after the       *)
(* invocation with other items admitted in between.                        *)
C1_AdmissionOrder ==
    DrainedByOneTake =>
        LET expect == RefExpand(program) IN
        /\ Len(res.chunks) = Len(expect)
        /\ \A i \in DOMAIN expect : IsEncodingOf(res.chunks[i], expect[i])

(* The encodings of the whole output: what the takes returned, then what   *)
(* ready still holds.                                                      *)
FinalChunks ==
    out \o concretize_ops(ready, Context(declared_labels, declared_macros)).chunks

(* C2: after a complete program is admitted (finish succeeds), the address *)
(* recorded for every label is the byte offset, in the final output, of    *)
(* the first byte emitted after the label's declaration.                   *)
C2_LabelAddressIsOffset ==
    (/\ res.op = "finish"
     /\ res.err.kind = "Ok"
     /\ ~failed
     /\ concretize_ops(ready, Context(declared_labels, declared_macros)).r = "Ok")
    => \A l \in DOMAIN declared_labels :
          declared_labels[l] = SumLen(SubSeq(FinalChunks, 1, decl_idx[l]))

(* v < 256^n, computed without forming the power. *)
RECURSIVE FitsIn(_, _)
FitsIn(v, n) == IF n = 0 THEN v = 0 ELSE FitsIn(v \div 256, n - 1)

(* The number a big-endian byte string denotes. *)
RECURSIVE BEValue(_)
BEValue(bytes) ==
    IF bytes = <<>> THEN 0
    ELSE 256 * BEValue(SubSeq(bytes, 1, Len(bytes) - 1)) + bytes[Len(bytes)]

(* chunk is PUSHn v with n the smallest width in 1..32 that holds v. *)
IsMinimalPush(chunk, v) ==
    LET n == Len(chunk) - 1 IN
    /\ n \in 1..32
    /\ chunk[1] = PushByte(n)
    /\ \A i \in 2..Len(chunk) : chunk[i] \in 0..255
    /\ BEValue(Tail(chunk)) = v
    /\ FitsIn(v, n)
    /\ n > 1 => ~FitsIn(v, n - 1)

(* C3: every unsized Push whose operand evaluates to v >= 0 (a constant,   *)
(* an expression, a label address referenced forward or backward) is       *)
(* emitted as PUSHn with n the smallest width such that v < 256^n (n = 1   *)
(* for v = 0), followed by exactly n big-endian immediate bytes.           *)
C3_MinimalPushWidth ==
    res.op = "take" =>
        \A i \in DOMAIN res.chunks :
            res.items[i].k = "push" =>
                LET ev == Eval(res.items[i].e, Context(declared_labels, declared_macros)) IN
                (ev.r = "Ok" /\ ev.v >= 0) => IsMinimalPush(res.chunks[i], ev.v)

(* A take emitted an unsized push of a label address as PUSH2. *)
C3_Witness ==
    /\ res.op = "take"
    /\ \E i \in DOMAIN res.chunks :
          /\ res.items[i].k = "push"
          /\ ExprLabels(res.items[i].e) # <<>>
          /\ Len(res.chunks[i]) = 3

(* The state a single take reaches after the same pushes, with no take in  *)
(* between.                                                                *)
RECURSIVE Replay(_, _)
Replay(s, prog) ==
    IF prog = <<>> \/ Stopped(s) THEN s
    ELSE Replay(push([s EXCEPT !.rnd = Head(prog).rnd], Head(prog).item, None),
                Tail(prog))

Fresh ==
    [ready |-> <<>>, concrete_len |-> 0, declared_labels |-> <<>>,
     declared_macros |-> <<>>, undefined_labels |-> <<>>,
     undefined_macros |-> <<>>, err |-> OkErr, panic |-> FALSE, rnd |-> <<>>,
     nadmitted |-> 0, min_len |-> 0, decl_idx |-> <<>>, ndrained |-> 0,
     depth |-> 0]

(* C4: interleaving takes among the pushes leaves the total output         *)
(* unchanged: the concatenation of all take results is what a single take  *)
(* after the last push returns.                                            *)
C4_TakeInterleaving ==
    (/\ res.op = "take"
     /\ ~panicked
     /\ ~failed
     /\ ready = <<>>
     /\ undefined_labels = <<>>
     /\ undefined_macros = <<>>)
    => LET s == Replay(Fresh, program)
           single == concretize_ops(s.ready, Context(s.declared_labels, s.declared_macros))
       IN  /\ ~Stopped(s)
           /\ single.r = "Ok"
           /\ Flatten(out) = Flatten(single.chunks)

(* The sizes an item of ready may be counted with: its encoded size, or    *)
(* the assumed size of a push whose label was unknown when it was admitted. *)
SizesOf(item) ==
    IF item.k = "raw" THEN {Len(item.bytes)}
    ELSE IF item.k = "op" THEN {OpSize(item)}
    ELSE LET c == Concretize(item, Context(declared_labels, declared_macros)) IN
         (IF c.r = "Ok" THEN {Len(Assemble(c))} ELSE {})
         \cup (IF ExprLabels(item.e) # <<>> \/ c.r # "Ok"
               THEN {IF OpSize(item) = None THEN MinUnsizedSize ELSE OpSize(item)}
               ELSE {})

RECURSIVE SumsOver(_)
SumsOver(items) ==
    IF items = <<>> THEN {0}
    ELSE {a + b : a \in SizesOf(Head(items)), b \in SumsOver(Tail(items))}

(* C5: after every public operation, concrete_len is the sum of the sizes  *)
(* of the items held in ready, each unsized or pending push counted at its *)
(* assumed width.                                                          *)
C5_ConcreteLenIsReadySize ==
    ~panicked => concrete_len \in SumsOver(ready)

(* C6: whenever no label reference is pending, a take issued right after a *)
(* push that returned n returns exactly n bytes.                           *)
C6_PushReturnsDrainable ==
    (/\ res.op = "take"
     /\ prev.op = "push"
     /\ prev.kind = "Ok"
     /\ undefined_labels = <<>>)
    => /\ ~panicked
       /\ SumLen(res.chunks) = prev.n

(* The labels the items of a sequence refer to. *)
LabelsUsed(items) ==
    UNION {Range(ExprLabels(items[i].e)) : i \in {j \in DOMAIN items : HasExpr(items[j])}}

(* C7: while some op in ready refers to a label that is not yet declared,  *)
(* take returns an empty vector and leaves ready as it was; once every     *)
(* label is declared, the next take returns the bytes of every buffered    *)
(* item.                                                                   *)
C7_TakeWaitsForLabels ==
    res.op = "take" =>
        LET waiting == LabelsUsed(res.items) \ DOMAIN declared_labels # {} IN
        /\ ~panicked
        /\ waiting => (res.chunks = <<>> /\ ready = res.items)
        /\ ~waiting =>
              /\ ready = <<>>
              /\ Len(res.chunks) = Len(res.items)
              /\ \A i \in DOMAIN res.items :
                    IsEncodingOf(res.chunks[i], res.items[i])

(* C8: of two takes with no push in between the second returns an empty    *)
(* vector, and what a take returned is never returned again: every item    *)
(* ever admitted is either in the output, once, or still in ready.         *)
C8_TakeTwice ==
    /\ (res.op = "take" /\ prev.op = "take") => res.chunks = <<>>
    /\ (res.op = "take" /\ res.chunks # <<>>) => ready = <<>>
    /\ nadmitted = Len(out) + Len(ready)

(* A second take in a row, after bytes were returned. *)
C8_Witness ==
    /\ res.op = "take"
    /\ prev.op = "take"
    /\ out # <<>>
    /\ ready = <<>>

(* C9: finish returns Ok exactly when both the pending-label list and the  *)
(* pending-macro list are empty, and an error in every other state.        *)
C9_FinishOkIffNothingPending ==
    res.op = "finish" =>
        (res.err.kind = "Ok"
           <=> (undefined_labels = <<>> /\ undefined_macros = <<>>))

(* finish succeeded after a macro was defined, a label declared and items  *)
(* admitted.                                                               *)
C9_Witness ==
    /\ res.op = "finish"
    /\ res.err.kind = "Ok"
    /\ declared_macros # <<>>
    /\ declared_labels # <<>>
    /\ nadmitted > 0

(* The labels referred to by an item of ready and never declared. *)
ReferencedUndeclared == LabelsUsed(ready) \ DOMAIN declared_labels

(* C10: when label references are pending, finish fails with               *)
(* UndeclaredLabels listing every label that was referenced but never      *)
(* declared and no declared label, also when macro invocations are pending. *)
C10_FinishListsUndeclared ==
    (res.op = "finish" /\ (undefined_labels # <<>> \/ ReferencedUndeclared # {}))
    => /\ res.err.kind = "UndeclaredLabels"
       /\ Range(res.err.labels) = ReferencedUndeclared
       /\ Range(res.err.labels) \cap DOMAIN declared_labels = {}

(* finish was called with a label reference and a macro invocation pending, *)
(* after another label was declared.                                        *)
C10_Witness ==
    /\ res.op = "finish"
    /\ undefined_labels # <<>>
    /\ undefined_macros # <<>>
    /\ declared_labels # <<>>

(* The macro invocations of the program whose name has no instruction      *)
(* macro definition: the invocations still waiting, in admission order.    *)
WaitingInvocations ==
    SelectSeq(program,
              LAMBDA e : /\ e.item.k = "macro"
                         /\ ~(/\ e.item.name \in DOMAIN declared_macros
                              /\ declared_macros[e.item.name].k = "mdef"))

(* C11: when no label is pending and an invocation was admitted whose      *)
(* instruction macro is still undefined, finish fails with                 *)
(* UndeclaredInstructionMacro naming the macro of the earliest invocation  *)
(* still waiting.                                                          *)
C11_FinishNamesEarliestMacro ==
    (/\ res.op = "finish"
     /\ undefined_labels = <<>>
     /\ WaitingInvocations # <<>>)
    => res.err = ErrNamed("UndeclaredInstructionMacro",
                          <<WaitingInvocations[1].item.name>>)

(* The item of the push a step makes, when the step is a push. *)
IsPushOf(kind) ==
    /\ Len(program') = Len(program) + 1
    /\ program'[Len(program')].item.k = kind

Pushed == program'[Len(program')].item

(* C12: pushing Label(L) when L is already declared fails with             *)
(* DuplicateLabel naming L and leaves the addresses as they were; no step  *)
(* ever changes the address a label has been given.                        *)
C12_DuplicateLabel ==
    [][/\ \A l \in DOMAIN declared_labels :
             /\ l \in DOMAIN declared_labels'
             /\ declared_labels[l] # None
                  => declared_labels'[l] = declared_labels[l]
       /\ (IsPushOf("label") /\ Pushed.l \in DOMAIN declared_labels)
             => /\ res'.err = ErrNamed("DuplicateLabel", Pushed.l)
                /\ declared_labels' = declared_labels]_vars

(* Label A was pushed a second time, at an offset other than its address.  *)
C12_Witness ==
    /\ res.op = "push"
    /\ res.err = ErrNamed("DuplicateLabel", A)
    /\ declared_labels[A] # concrete_len

(* The first definition of a macro name in the program, of either kind. *)
FirstDefinition(prog, name) ==
    LET defs == SelectSeq(prog, LAMBDA e : /\ e.item.k \in {"mdef", "edef"}
                                           /\ e.item.name = name)
    IN  defs[1].item

(* C13: pushing a macro definition whose name is already registered, as an *)
(* instruction or as an expression macro, fails with DuplicateMacro naming *)
(* it and leaves the registered definition alone; a later invocation of an *)
(* instruction macro appends the body of the first definition of its name. *)
C13_DuplicateMacro ==
    [][/\ (/\ \/ IsPushOf("mdef")
              \/ IsPushOf("edef")
           /\ Pushed.name \in DOMAIN declared_macros)
             => /\ res'.err = ErrNamed("DuplicateMacro", <<Pushed.name>>)
                /\ declared_macros' = declared_macros
       /\ \A n \in DOMAIN declared_macros' :
             declared_macros'[n] = FirstDefinition(program', n)
       /\ (IsPushOf("macro") /\ Pushed.name \in DOMAIN declared_macros)
             => ready' = ready \o
                   (IF FirstDefinition(program, Pushed.name).k = "mdef"
                    THEN FirstDefinition(program, Pushed.name).contents
                    ELSE <<>>)]_vars

(* Macro m was defined twice with different bodies, and an invocation      *)
(* admitted after the failed second definition has just been expanded.     *)
C13_Witness ==
    /\ Len(program) >= 3
    /\ program[Len(program)].item = MacroInv("m", <<>>)
    /\ program[Len(program) - 1].item = MacroDef("m", <<>>, BodyG)
    /\ prev.kind = "DuplicateMacro"
    /\ declared_macros["m"] = MacroDef("m", <<>>, BodyJ)
    /\ ready # <<>>

(* The names the expansions of macro mname gave its label l. *)
CopiesOf(mname, l) ==
    {m \in DOMAIN declared_labels : \E id \in 1..MaxRand : m = Mangle(mname, l, id)}

(* How many of the items are a one-byte push of label l. *)
RefsTo(l, items) ==
    Len(SelectSeq(items, LAMBDA it : it = PushN(1, LabelRef(l))))

(* How many invocations the push of a step expands: the invocation itself  *)
(* when its macro is defined, the queued ones when the definition arrives. *)
Expanded ==
    CASE IsPushOf("macro") ->
           IF /\ Pushed.name \in DOMAIN declared_macros
              /\ declared_macros[Pushed.name].k = "mdef" THEN 1 ELSE 0
      [] IsPushOf("mdef") ->
           IF Pushed.name \in DOMAIN declared_macros THEN 0
           ELSE Len(SelectSeq(undefined_macros,
                              LAMBDA um : um.name = Pushed.name))
      [] OTHER -> 0

PendingOn(uls, l) == SelectSeq(uls, LAMBDA ul : ul.label = l)

(* C15: label A declared at top level and label A declared in the body of  *)
(* macro m coexist.  No expansion fails with DuplicateLabel naming A, and  *)
(* declaring A at top level succeeds whatever copies of A the expansions   *)
(* made.  An expansion leaves the top-level A, the references waiting for  *)
(* it and the references to it alone; a push of A written outside the body *)
(* is admitted as written and a take emits it with the address of the      *)
(* top-level A.                                                            *)
C15_ShadowedLabel ==
    [][/\ (IsPushOf("macro") \/ IsPushOf("mdef"))
            => /\ res'.err # ErrNamed("DuplicateLabel", A)
               /\ ~panicked'
                    => /\ RefsTo(A, ready') = RefsTo(A, ready)
                       /\ PendingOn(undefined_labels', A)
                            = PendingOn(undefined_labels, A)
                       /\ (A \in DOMAIN declared_labels') = (A \in DOMAIN declared_labels)
                       /\ A \in DOMAIN declared_labels
                            => declared_labels'[A] = declared_labels[A]
       /\ (IsPushOf("label") /\ Pushed.l \notin DOMAIN declared_labels)
            => res'.err.kind = "Ok"
       /\ (IsPushOf("pushn") /\ res'.err.kind = "Ok")
            => ready' = Append(ready, Pushed)
       /\ res'.op = "take"
            => \A i \in DOMAIN res'.chunks :
                  res'.items[i] = PushN(1, LabelRef(A))
                      => res'.chunks[i] = <<Push1Byte, declared_labels[A]>>]_vars

(* A take emitted a push of the top-level A and a push of a copy of A made *)
(* by an expansion of m, with different addresses.                         *)
C15_Witness ==
    /\ res.op = "take"
    /\ ~failed
    /\ \E i, j \in DOMAIN res.chunks :
          \E l \in CopiesOf("m", A) :
              /\ res.items[i] = PushN(1, LabelRef(A))
              /\ res.items[j] = PushN(1, LabelRef(l))
              /\ res.chunks[i] # res.chunks[j]

(* The index of the first definition of an instruction macro in prog, or 0. *)
DefIndex(prog) ==
    LET ds == {i \in DOMAIN prog : prog[i].item.k = "mdef"}
    IN  IF ds = {} THEN 0 ELSE CHOOSE i \in ds : \A j \in ds : i <= j

(* How many of the first j entries of prog invoke the macro named name. *)
InvokedUpTo(prog, name, j) ==
    Cardinality({i \in 1..j : prog[i].item = MacroInv(name, <<>>)})

(* prog with the definition at index d moved to the front, everything else *)
(* in the same order.  The random ids the definition's push drew for the   *)
(* invocations that were waiting go to the pushes of those invocations.    *)
DefinitionFirst(prog, d) ==
    LET def == prog[d].item
        n == CountLabels(def.contents)
    IN  <<[item |-> def, rnd |-> <<>>]>> \o
        [i \in 1..(Len(prog) - 1) |->
            LET j == IF i < d THEN i ELSE i + 1
                e == prog[j]
                k == InvokedUpTo(prog, def.name, j)
            IN  IF j < d /\ e.item = MacroInv(def.name, <<>>)
                THEN [e EXCEPT !.rnd = SubSeq(prog[d].rnd, (k - 1) * n + 1, k * n)]
                ELSE e]

(* prog, pushed to a new assembler, is admitted whole and leaves nothing   *)
(* pending, and a take then returns all of it.                             *)
Assembles(prog) ==
    LET s == Replay(Fresh, prog) IN
    /\ ~Stopped(s)
    /\ s.undefined_labels = <<>>
    /\ s.undefined_macros = <<>>
    /\ LET single == concretize_ops(s.ready,
                                    Context(s.declared_labels, s.declared_macros))
       IN  single.r = "Ok" /\ Len(single.chunks) = Len(s.ready)

(* The bytes that take returns. *)
BytesOf(prog) ==
    LET s == Replay(Fresh, prog) IN
    Flatten(concretize_ops(s.ready,
                           Context(s.declared_labels, s.declared_macros)).chunks)

(* C16: a program that assembles and defines macro m after invocations of  *)
(* m assembles to the same bytes when the definition is moved before them, *)
(* every other item staying in place.                                      *)
C16_ForwardIsBackward ==
    LET d == DefIndex(program) IN
    (/\ d > 0
     /\ InvokedUpTo(program, "m", d) > 0
     /\ Assembles(program))
    => /\ Assembles(DefinitionFirst(program, d))
       /\ BytesOf(DefinitionFirst(program, d)) = BytesOf(program)

(* Every label the expression refers to is declared. *)
AllDeclared(e, labels) == Range(ExprLabels(e)) \subseteq DOMAIN labels

(* C17: pushing a typed PushN whose operand evaluates, its labels all      *)
(* declared, to v >= 0 fails with ExpressionTooLarge exactly when          *)
(* v >= 256^N; otherwise the op is admitted, and a take emits it as the    *)
(* opcode of PushN followed by N bytes that are v in big-endian order,     *)
(* zeros on the left.                                                      *)
C17_TypedPushWidth ==
    [][/\ (IsPushOf("pushn") /\ AllDeclared(Pushed.e, declared_labels))
            => LET ev == Eval(Pushed.e, Context(declared_labels, declared_macros)) IN
               (ev.r = "Ok" /\ ev.v >= 0)
                   => /\ (res'.err.kind = "ExpressionTooLarge") = ~FitsIn(ev.v, Pushed.n)
                      /\ FitsIn(ev.v, Pushed.n)
                           => /\ res'.err.kind = "Ok"
                              /\ ready' = Append(ready, Pushed)
       /\ res'.op = "take"
            => \A i \in DOMAIN res'.chunks :
                  res'.items[i].k = "pushn"
                      => LET ev == Eval(res'.items[i].e,
                                        Context(declared_labels, declared_macros))
                             chunk == res'.chunks[i]
                         IN  /\ ev.r = "Ok"
                             /\ Len(chunk) = res'.items[i].n + 1
                             /\ chunk[1] = PushByte(res'.items[i].n)
                             /\ \A j \in 2..Len(chunk) : chunk[j] \in 0..255
                             /\ BEValue(Tail(chunk)) = ev.v]_vars

(* The push of Push1 256 failed with ExpressionTooLarge and a take emitted *)
(* Push2 255 as 61 00 ff.                                                  *)
C17_Witness ==
    /\ res.op = "take"
    /\ \E i \in DOMAIN program :
          /\ program[i].item = PushN(1, Num(256))
          /\ i > 1
          /\ program[i - 1].item = PushN(1, Num(255))
    /\ Flatten(out) = <<PushByte(1), 255, PushByte(2), 0, 255>>

(* C18: pushing a typed or an unsized push whose operand evaluates, its    *)
(* labels all declared, to a negative value fails with ExpressionNegative  *)
(* carrying that value, and ready and concrete_len stay as they were.      *)
C18_NegativeRejected ==
    [][((IsPushOf("pushn") \/ IsPushOf("push"))
            /\ AllDeclared(Pushed.e, declared_labels))
         => LET ev == Eval(Pushed.e, Context(declared_labels, declared_macros)) IN
            (ev.r = "Ok" /\ ev.wide = 0 /\ ev.v < 0)
                => /\ res'.err = ErrValue("ExpressionNegative", ev.v)
                   /\ ready' = ready
                   /\ concrete_len' = concrete_len]_vars

(* With label A at address 0 and an op waiting in ready, the push of       *)
(* Push1 (A - 1) failed with ExpressionNegative.                           *)
C18_Witness ==
    /\ res.op = "push"
    /\ res.err = ErrValue("ExpressionNegative", -1)
    /\ program[Len(program)].item = PushN(1, Plus(LabelRef(A), Num(-1)))
    /\ ready # <<>>

(* The last call was the push of item. *)
LastPushed(kinds) ==
    /\ res.op = "push"
    /\ program # <<>>
    /\ program[Len(program)].item.k \in kinds

LastItem == program[Len(program)].item

(* How many bytes the value of an unsized push needs. *)
BytesNeeded(e) ==
    LET ev == Eval(e, Context(declared_labels, declared_macros)) IN
    IF ev.r = "Ok" /\ (ev.wide > 0 \/ ev.v >= 0)
    THEN Len(TrimLeadingZeros(ValueBytes(ev))) ELSE 0

(* C19: the push of an unsized Push whose value needs more than 32 bytes   *)
(* fails with UnsizedPushTooLarge.                                         *)
C19_UnsizedPushTooLarge ==
    (LastPushed({"push"}) /\ BytesNeeded(LastItem.e) > MaxPushWidth)
        => res.err.kind = "UnsizedPushTooLarge"

(* C20: the push of an op whose expression invokes an expression macro     *)
(* that is not defined fails with UndeclaredExpressionMacro naming the     *)
(* macro.                                                                  *)
C20_UndeclaredExpressionMacro ==
    (LastPushed({"push", "pushn"}) /\ ~LabelsOk(LastItem.e, declared_macros))
        => res.err = ErrNamed("UndeclaredExpressionMacro", <<"f">>)

(* The labels a step gives an address. *)
NewlyDeclared ==
    {l \in DOMAIN declared_labels' : l \notin DOMAIN declared_labels}

(* C21: the address a label is given is at least the sum of the minimum    *)
(* sizes of the items admitted before its declaration (typed op: 1 +       *)
(* immediate length; unsized push: 2; raw blob: its length), and at least  *)
(* concrete_len, the address without the width correction.  concrete_len   *)
(* itself never falls below that sum and never decreases.                  *)
C21_LabelMonotone ==
    [][/\ \A l \in NewlyDeclared :
             panicked' \/ res'.err.kind # "Ok"
               \/ /\ declared_labels'[l] >= min_len
                  /\ declared_labels'[l] >= concrete_len
       /\ concrete_len' >= min_len'
       /\ concrete_len' >= concrete_len]_vars

(* A label was declared behind a 254-byte blob and the width correction    *)
(* moved its address past concrete_len.                                    *)
C21_Witness ==
    /\ LastPushed({"label"})
    /\ res.err.kind = "Ok"
    /\ min_len >= BlobLen
    /\ declared_labels[LastItem.l] > concrete_len

(* C22: a label declared right after another label, no instruction or raw  *)
(* bytes admitted between the two, is recorded with the same address.      *)
C22_AdjacentLabels ==
    [][(/\ LastPushed({"label"})
        /\ res.err.kind = "Ok"
        /\ IsPushOf("label")
        /\ res'.err.kind = "Ok"
        /\ ~panicked')
         => declared_labels'[Pushed.l] = declared_labels[LastItem.l]]_vars

(* The macros invoked by the body of instruction macro m. *)
Invokes(m, macros) ==
    IF m \in DOMAIN macros /\ macros[m].k = "mdef"
    THEN {macros[m].contents[i].name :
            i \in {j \in DOMAIN macros[m].contents : macros[m].contents[j].k = "macro"}}
    ELSE {}

(* The macros reached from the set `from` in at most n expansions. *)
RECURSIVE ReachedFrom(_, _, _)
ReachedFrom(from, macros, n) ==
    IF n = 0 THEN from
    ELSE ReachedFrom(from \cup UNION {Invokes(m, macros) : m \in from}, macros, n - 1)

(* The body of m invokes m again, directly or through other macros. *)
SelfInvoking(m, macros) ==
    m \in ReachedFrom(Invokes(m, macros), macros, Cardinality(DOMAIN macros))

(* C23: invoking an instruction macro whose body invokes itself, directly  *)
(* or through other macros, terminates: the push returns an error and the  *)
(* assembler is still there.                                               *)
C23_RecursionReported ==
    [][(/\ IsPushOf("macro")
        /\ SelfInvoking(Pushed.name, declared_macros))
         => /\ ~panicked'
            /\ res'.err.kind # "Ok"]_vars

(* C24: byte and specifier convert into each other one to one: a byte      *)
(* turned into a specifier and back is the same byte, for each of the 256  *)
(* bytes, a specifier turned into a byte and back is the same specifier,   *)
(* SelfDestruct is 0xff and Invalid comes from 0xfe and no other byte.     *)
C24_ByteSpecifierBijection ==
    [][/\ (call.fn = "from_u8" /\ call'.fn = "to_u8") => call'.byte = call.byte
       /\ (call.fn = "to_u8" /\ call'.fn = "from_u8") => call'.sp = call.sp
       /\ call'.fn = "from_u8" => (call'.sp = "Invalid" <=> call'.byte = 254)
       /\ call'.fn = "to_u8" => (call'.sp = "SelfDestruct" <=> call'.byte = 255)
      ]_vars

(* SelfDestruct has been turned into its byte. *)
C24_Witness ==
    /\ call.fn = "to_u8"
    /\ call.sp = "SelfDestruct"
    /\ call.byte = 255

(* C25: the mnemonic printed for a specifier parses back to that           *)
(* specifier, no other specifier prints the same mnemonic, and a text that *)
(* is no mnemonic is rejected.                                             *)
C25_MnemonicRoundTrip ==
    [][/\ (call.fn = "to_string" /\ call'.fn = "from_str")
            => (call'.ok /\ call'.sp = call.sp)
       /\ call'.fn = "to_string"
            => \A sp \in Specifiers \ {call'.sp} : Display(sp) # call'.text
       /\ (call.fn = "text" /\ call.text \in NotMnemonics /\ call'.fn = "from_str")
            => ~call'.ok
      ]_vars

(* The mnemonic printed for Push32 has been parsed. *)
C25_Witness ==
    /\ call.fn = "from_str"
    /\ call.ok
    /\ call.sp = "Push32"
    /\ call.text = "push32"

(* The upper and the lower half of a u32. *)
Hi(n) == 256 * n[1] + n[2]
Lo(n) == 256 * n[3] + n[4]

(* C26: push_for(v) is Push1 for v in 0..255, Push2 for 256..65535, Push3  *)
(* for 65536..16777215 and Push4 for 16777216..4294967295: the narrowest   *)
(* push that holds v, and never narrower than one byte.                    *)
C26_PushFor ==
    call.fn = "push_for" =>
        /\ call.push = 1 <=> (Hi(call.n) = 0 /\ Lo(call.n) <= 255)
        /\ call.push = 2 <=> (Hi(call.n) = 0 /\ Lo(call.n) >= 256)
        /\ call.push = 3 <=> Hi(call.n) \in 1..255
        /\ call.push = 4 <=> Hi(call.n) >= 256
        /\ call.push \in 1..4

(* push_for(256) has returned Push2. *)
C26_Witness ==
    /\ call.fn = "push_for"
    /\ call.n = <<0, 0, 1, 0>>
    /\ call.push = 2

(* C27: the encoding of a concrete op is its opcode byte followed by its   *)
(* immediate, extra_len bytes of it and none for an op that is no push,    *)
(* and decoding the encoding gives the op back.                            *)
C27_EncodeDecode ==
    [][/\ call'.fn = "assemble" =>
            /\ Len(call'.bytes) = 1 + extra_len(call'.cop.sp)
            /\ Lut(call'.bytes[1]) = call'.cop.sp
            /\ Tail(call'.bytes) = call'.cop.imm
            /\ (Len(call'.bytes) > 1
                  <=> \E w \in 1..MaxPushWidth :
                        call'.bytes[1] = PushByte(w) /\ Len(call'.bytes) = 1 + w)
       /\ (call.fn = "assemble" /\ call'.fn = "from_slice")
            => (call'.ok /\ call'.cop = call.cop)
      ]_vars

(* The encoding of a Push32 has been decoded. *)
C27_Witness ==
    /\ call.fn = "from_slice"
    /\ call.ok
    /\ call.cop.sp = "Push32"
    /\ Len(call.bytes) = 1 + MaxPushWidth

(* Some label of the expression has no address yet. *)
RefersToUnknown(e) ==
    \E i \in DOMAIN ExprLabels(e) :
        \/ ExprLabels(e)[i] \notin DOMAIN declared_labels
        \/ declared_labels[ExprLabels(e)[i]] = None

(* C28: a pushed op that refers to a label without an address is appended  *)
(* to ready all the same, and concrete_len grows by 1 + its immediate      *)
(* length if it is a typed push and by 2 if it is an unsized push; an      *)
(* unsized push of a known number is appended and counted with the size of *)
(* its encoding, whether or not earlier ops are waiting.                   *)
C28_PendingOpAdmitted ==
    [][(IsPushOf("pushn") \/ IsPushOf("push")) =>
          /\ RefersToUnknown(Pushed.e) =>
                /\ res'.err.kind = "Ok"
                /\ ~panicked'
                /\ ready' = Append(ready, Pushed)
                /\ concrete_len' = concrete_len
                                     + (IF Pushed.k = "pushn" THEN 1 + Pushed.n
                                        ELSE MinUnsizedSize)
          /\ (Pushed.k = "push" /\ Pushed.e.t = "num" /\ Pushed.e.v >= 0) =>
                /\ res'.err.kind = "Ok"
                /\ ready' = Append(ready, Pushed)
                /\ concrete_len' = concrete_len + 1 + Len(ToBytesBE(Pushed.e.v))
      ]_vars

(* An unsized push of 256 was admitted with its three bytes behind an      *)
(* unsized push that waits for a label and was counted with two.           *)
C28_Witness ==
    /\ LastPushed({"push"})
    /\ LastItem.e = Num(256)
    /\ Len(ready) = 2
    /\ undefined_labels # <<>>
    /\ concrete_len = MinUnsizedSize + 3

(* The pending references to label l. *)
PendingRefs(l) ==
    {i \in DOMAIN undefined_labels : undefined_labels[i].label = l}

(* The largest number of whole 256-byte steps between a pending reference  *)
(* to l and concrete_len; 0 when nothing refers to l.                      *)
Dst(l) ==
    LET steps == {(concrete_len - undefined_labels[i].position) \div WidthStep :
                    i \in PendingRefs(l)}
    IN  IF steps = {} THEN 0
        ELSE CHOOSE d \in steps : \A other \in steps : other <= d

(* C29: a label that is pushed and accepted is recorded at concrete_len +  *)
(* dst, dst being the largest floor((concrete_len - position) / 256) over  *)
(* the pending references to it and 0 without any; its pending references  *)
(* are all removed and those to other labels stay as they are, in order.   *)
C29_LabelAddress ==
    [][(IsPushOf("label") /\ res'.err.kind = "Ok" /\ ~panicked') =>
          /\ declared_labels'[Pushed.l] = concrete_len + Dst(Pushed.l)
          /\ undefined_labels'
               = SelectSeq(undefined_labels, LAMBDA ul : ul.label # Pushed.l)
      ]_vars

(* A label was recorded one past concrete_len: a reference to it waited    *)
(* 256 bytes back.                                                         *)
C29_Witness ==
    /\ LastPushed({"label"})
    /\ res.err.kind = "Ok"
    /\ ~panicked
    /\ declared_labels[LastItem.l] = concrete_len + 1
    /\ \A i \in DOMAIN undefined_labels : undefined_labels[i].label # LastItem.l

(* The pending invocations of macro name recorded in front of the j-th     *)
(* item of ready.                                                          *)
InvokedBefore(name, j) ==
    Cardinality({i \in DOMAIN undefined_macros :
                    /\ undefined_macros[i].name = name
                    /\ undefined_macros[i].position < j})

(* C30: when the definition of a macro arrives and its pending invocations *)
(* are expanded, each body goes into ready at the place of its invocation: *)
(* an item that was in ready stays behind the bodies of all the            *)
(* invocations made before it and in front of those made after it, also    *)
(* when a body item refers to a label not yet declared, and the position   *)
(* recorded for a pending reference follows the item it belongs to.        *)
C30_ExpansionInPlace ==
    [][(/\ IsPushOf("mdef")
        /\ InvokedBefore(Pushed.name, Len(ready) + 1) > 0
        /\ res'.err.kind = "Ok"
        /\ ~panicked')
         => LET k == Len(Emitting(Pushed.contents))
                Moved(j) == j + k * InvokedBefore(Pushed.name, j)
            IN  /\ Len(ready') = Moved(Len(ready) + 1) - 1
                /\ \A j \in DOMAIN ready :
                      /\ Moved(j) \in DOMAIN ready'
                      /\ ready'[Moved(j)] = ready[j]
                /\ \A i \in DOMAIN undefined_labels :
                      /\ i \in DOMAIN undefined_labels'
                      /\ undefined_labels'[i].label = undefined_labels[i].label
                      /\ undefined_labels'[i].position + 1
                           = Moved(undefined_labels[i].position + 1)
      ]_vars

(* C31: every op in ready concretizes, or fails to only because a label or *)
(* a macro is still unknown: take never comes to the branch marked         *)
(* unreachable ("all ops should be concretizable").                        *)
C31_ReadyConcretizable ==
    ~panicked =>
        \A i \in DOMAIN ready :
            \/ ready[i].k = "raw"
            \/ Concretize(ready[i], Context(declared_labels, declared_macros)).r
                 \in {"Ok", "UnknownLabel", "UnknownMacro"}

(* The label of the body that is the first to be declared a second time. *)
FirstRepeated(contents) ==
    LET j == CHOOSE j \in DOMAIN contents :
                 /\ contents[j].k = "label"
                 /\ \E i \in 1..(j - 1) : contents[i] = contents[j]
                 /\ \A h \in 1..(j - 1) :
                       ~(/\ contents[h].k = "label"
                         /\ \E i \in 1..(h - 1) : contents[i] = contents[h])
    IN  contents[j].l

(* The pending invocations of macro name, oldest first. *)
WaitingFor(name) == SelectSeq(undefined_macros, LAMBDA um : um.name = name)

C33_ArityRejected ==
    [][(/\ IsPushOf("macro")
        /\ Pushed.name \in DOMAIN declared_macros
        /\ declared_macros[Pushed.name].k = "mdef"
        /\ Len(Pushed.params) # Len(declared_macros[Pushed.name].params))
         => /\ ~panicked'
            /\ res'.err.kind # "Ok"
            /\ ready' = ready
      ]_vars

(* No unsized push has been pushed: every item has the size it was counted *)
(* with.                                                                   *)
AllSized == \A i \in DOMAIN program : program[i].item.k # "push"

(* C34: a raw blob goes to the end of ready and adds its length to         *)
(* concrete_len, a take returns it byte for byte, and a label declared     *)
(* behind typed pushes and blobs is recorded at the sum of their sizes: a  *)
(* typed push in front of a blob of k bytes finds its label at its own     *)
(* size + k.                                                               *)
C34_RawBlob ==
    [][/\ IsPushOf("raw") =>
            /\ res'.err.kind = "Ok"
            /\ ready' = Append(ready, Pushed)
            /\ concrete_len' = concrete_len + Len(Pushed.bytes)
       /\ (res'.op = "take" /\ ~panicked' /\ ready' = <<>>) =>
            \A i \in DOMAIN ready :
                ready[i].k = "raw" => res'.chunks[i] = ready[i].bytes
       /\ (/\ IsPushOf("label")
           /\ AllSized
           /\ res'.err.kind = "Ok"
           /\ ~panicked')
            => declared_labels'[Pushed.l] = min_len
      ]_vars

(* How many of the items are a one-byte push of a label that macro mname   *)
(* declares for itself.                                                    *)
LocalRefs(mname, items) ==
    Len(SelectSeq(items, LAMBDA it :
            /\ it.k = "pushn"
            /\ it.e.t = "lbl"
            /\ it.e.l[1] = mname))

(* C35: macro m(x) declares a label a, pushes x and pushes a; it is        *)
(* invoked with the caller's label a as argument.  Every expansion adds    *)
(* one push of the caller's a, the argument as written, and one push of    *)
(* the macro's own a under its new name; a take emits the push of the      *)
(* argument with the address of the caller's a.                            *)
C35_ArgumentKeepsCallerLabel ==
    [][/\ (Expanded > 0 /\ res'.err.kind = "Ok" /\ ~panicked') =>
            /\ RefsTo(A, ready') = RefsTo(A, ready) + Expanded
            /\ LocalRefs("m", ready') = LocalRefs("m", ready) + Expanded
       /\ (res'.op = "take" /\ ~panicked' /\ ready' = <<>>) =>
            \A i \in DOMAIN ready :
                ready[i] = PushN(1, LabelRef(A))
                  => res'.chunks[i] = <<Push1Byte, declared_labels[A]>>
      ]_vars

(* A take has emitted the push of the argument with the address of the     *)
(* caller's a, the macro's own a standing at another address.              *)
C35_Witness ==
    /\ res.op = "take"
    /\ ~panicked
    /\ A \in DOMAIN declared_labels
    /\ \E i \in DOMAIN res.items :
          /\ res.items[i] = PushN(1, LabelRef(A))
          /\ i \in DOMAIN res.chunks
          /\ res.chunks[i] = <<Push1Byte, declared_labels[A]>>
    /\ \E copy \in CopiesOf("m", A) : declared_labels[copy] # declared_labels[A]

(* C36: a push that returns an error leaves ready, concrete_len, the        *)
(* declared labels and macros and both pending lists as they were before   *)
(* the call.                                                               *)
C36_FailedPushChangesNothing ==
    [][(/\ Len(program') = Len(program) + 1
        /\ res'.err.kind # "Ok"
        /\ ~panicked')
         => UNCHANGED <<ready, concrete_len, declared_labels, declared_macros,
                        undefined_labels, undefined_macros>>
      ]_vars

(* C37: in a state where finish would return Ok, take returns the bytes of  *)
(* every item of ready and leaves ready empty.                              *)
C37_TakeDrainsWhenFinishOk ==
    [][(/\ res'.op = "take"
        /\ finish(undefined_labels, undefined_macros) = OkErr)
         => /\ ~panicked'
            /\ ready' = <<>>
            /\ Len(res'.chunks) = Len(ready)
            /\ \A i \in DOMAIN ready : res'.chunks[i] # <<>> \/ ready[i].k = "raw"
      ]_vars

(* The number of bytes take has returned so far. *)
RECURSIVE DrainedBytes(_)
DrainedBytes(chunks) ==
    IF chunks = <<>> THEN 0
    ELSE Len(Head(chunks)) + DrainedBytes(Tail(chunks))

(* C38: take changes only ready: concrete_len, the recorded labels, the     *)
(* declared macros and both pending lists stay as they are; so a label     *)
(* accepted after a take is recorded at an address, at least concrete_len, *)
(* that counts the bytes already drained.                                  *)
C38_TakeChangesOnlyReady ==
    [][/\ res'.op = "take" =>
            /\ UNCHANGED <<concrete_len, declared_labels, declared_macros,
                           undefined_labels, undefined_macros>>
            /\ ready' \in {ready, <<>>}
       /\ (IsPushOf("label") /\ res'.err.kind = "Ok" /\ ~panicked') =>
            /\ declared_labels'[Pushed.l] >= concrete_len
            /\ declared_labels'[Pushed.l] >= DrainedBytes(out)
      ]_vars

(* C39: finish never changes the assembler: ready, concrete_len, the       *)
(* labels, the macros and both pending lists are after finish what they    *)
(* were before it, whether it returns Ok or an error, so the calls that    *)
(* follow find the state they would have found without it; and the result  *)
(* finish returned is the one it returns when called again at once.        *)
C39_FinishChangesNothing ==
    [][res'.op = "finish" =>
          /\ UNCHANGED <<ready, concrete_len, declared_labels, declared_macros,
                         undefined_labels, undefined_macros, panicked, out>>
          /\ res'.err = finish(undefined_labels', undefined_macros')
      ]_vars

(* finish has just returned UndeclaredLabels with items in ready and a     *)
(* reference pending, and would return the same again.                     *)
C39_Witness ==
    /\ res.op = "finish"
    /\ res.err.kind = "UndeclaredLabels"
    /\ prev.op = "push"
    /\ ready # <<>>
    /\ undefined_labels # <<>>
    /\ finish(undefined_labels, undefined_macros) = res.err

(* C40: when a label is declared, the position recorded for each pending   *)
(* reference to it is at most concrete_len, so concrete_len - position     *)
(* does not go below zero; empty raw blobs included.                       *)
C40_PositionWithinLength ==
    [][IsPushOf("label") =>
          /\ \A i \in PendingRefs(Pushed.l) :
                undefined_labels[i].position <= concrete_len
          /\ ~panicked'
      ]_vars

=============================================================================
